---------------------------- MODULE Spec2Model ----------------------------
(***************************************************************************)
(* A model of the bead-pattern generator: the colour-space library, the    *)
(* palette store, the nearest-colour matcher, PerlerBeadGenerator.generate *)
(* (flood-fill background segmentation and the four quantisation           *)
(* strategies), the statistics of the renderer and of the colour list,     *)
(* and the region merge engine.                                            *)
(*                                                                         *)
(* Numbers.  The source computes in IEEE doubles; the model computes in    *)
(* fixed point.  A channel value v of the source is held as v * ChanScale, *)
(* which represents every block average (a multiple of 1/16) and every     *)
(* sharpened value (a multiple of 1/160) exactly.  Lab coordinates are     *)
(* held in tenths.  Distances are compared through their squares, which    *)
(* orders them as Math.sqrt does.                                          *)
(***************************************************************************)
EXTENDS Integers, Sequences, FiniteSets, TLC

VARIABLES
    palettes,          \* color_utils.ts: export const palettes
    call,              \* the arguments of the last call of the core
    result,            \* what that call returned, or that it threw
    procData,          \* generate: the processing buffer (RGBA per pixel)
    isBackgroundMask,  \* generate: the flood-fill mask over the buffer
    grid,              \* the grid the caller holds (App.tsx: grid)
    licenses,          \* server: the table licenses (key -> fingerprint)
    login_logs,        \* server: the table login_logs, oldest row first
    reply,             \* server: the last request and its response
    fill,              \* generate: visited, queue and head of the flood fill
    tested,            \* per pixel, the passes of the fill that tested it
    activeTab,         \* App.tsx: activeTab
    isAuth,            \* App.tsx: isAuth
    isAdminFlag,       \* App.tsx: isAdmin (the server has isAdmin(req))
    isCheckingAuth,    \* App.tsx: isCheckingAuth
    isActivating,      \* App.tsx: isActivating
    perler_license,    \* localStorage: the item 'perler_license'
    verifying,         \* the request to /api/verify that is not answered yet
    image,             \* App.tsx: image
    isGenerating,      \* App.tsx: isGenerating
    generation,        \* where the request of handleGenerate stands
    selectedColorCodes,\* App.tsx: selectedColorCodes
    isLocked           \* App.tsx: isLocked

coreVars == <<palettes, call, result, procData, isBackgroundMask, grid>>
serverVars == <<licenses, login_logs, reply>>
fillVars == <<fill, tested>>
appVars == <<activeTab, isAuth, isAdminFlag, isCheckingAuth, isActivating,
             perler_license, verifying, image, isGenerating, generation,
             selectedColorCodes, isLocked>>
vars == <<palettes, call, result, procData, isBackgroundMask, grid,
          licenses, login_logs, reply, fill, tested, activeTab, isAuth,
          isAdminFlag, isCheckingAuth, isActivating, perler_license,
          verifying,
          image, isGenerating, generation, selectedColorCodes, isLocked>>

---------------------------------------------------------------------------
(* Bounds of the model *)

MaxTargetW == 2
MaxTargetH == 2

\* The rows of login_logs up to which the server is followed.
MaxLogs == 2

\* The most data rows of a palette source table.
MaxRows == 2

\* The largest width and height of a source image and of a target of the
\* crop.
MaxSize == 4

---------------------------------------------------------------------------
(* Fixed point *)

ChanScale == 16 * 10

Min(a, b) == IF a < b THEN a ELSE b
Max(a, b) == IF a > b THEN a ELSE b
Abs(a) == IF a < 0 THEN 0 - a ELSE a

\* The values f[lo], ..., f[hi] as a sequence, each computed once.
RECURSIVE tupleRange(_, _, _)
tupleRange(f, lo, hi) ==
    IF lo > hi THEN << >>
    ELSE IF lo = hi THEN <<f[lo]>>
    ELSE tupleRange(f, lo, (lo + hi) \div 2)
           \o tupleRange(f, (lo + hi) \div 2 + 1, hi)

\* The function f on 1..n as a sequence.
tuple(f, n) == tupleRange(f, 1, n)

\* The largest k in lo..hi with k^3 <= n (lo^3 <= n is given).
RECURSIVE CubeRootIn(_, _, _)
CubeRootIn(n, lo, hi) ==
    IF lo >= hi THEN lo
    ELSE LET mid == (lo + hi + 1) \div 2
         IN  IF mid * mid * mid <= n THEN CubeRootIn(n, mid, hi)
                                     ELSE CubeRootIn(n, lo, mid - 1)

---------------------------------------------------------------------------
(* Colour space library: color_utils.ts *)

\* c > 0.04045 ? Math.pow((c + 0.055) / 1.055, 2.4) : c / 12.92 for
\* c = i / 255, i = 0..255, times 10000 and rounded.
SrgbLinear ==
  << 0, 3, 6, 9, 12, 15, 18, 21, 24, 27, 30, 33, 37, 40, 44, 48,
     52, 56, 60, 65, 70, 75, 80, 86, 91, 97, 103, 110, 116, 123, 130, 137,
     144, 152, 160, 168, 176, 185, 194, 203, 212, 222, 232, 242, 252, 262, 273, 284,
     296, 307, 319, 331, 343, 356, 369, 382, 395, 409, 423, 437, 452, 467, 482, 497,
     513, 529, 545, 561, 578, 595, 612, 630, 648, 666, 685, 704, 723, 742, 762, 782,
     802, 823, 844, 865, 887, 908, 931, 953, 976, 999, 1022, 1046, 1070, 1095, 1119, 1144,
     1170, 1195, 1221, 1248, 1274, 1301, 1329, 1356, 1384, 1413, 1441, 1470, 1500, 1529, 1559, 1590,
     1620, 1651, 1683, 1714, 1746, 1779, 1812, 1845, 1878, 1912, 1946, 1981, 2016, 2051, 2086, 2122,
     2159, 2195, 2232, 2270, 2307, 2346, 2384, 2423, 2462, 2502, 2542, 2582, 2623, 2664, 2705, 2747,
     2789, 2831, 2874, 2918, 2961, 3005, 3050, 3095, 3140, 3185, 3231, 3278, 3325, 3372, 3419, 3467,
     3515, 3564, 3613, 3663, 3712, 3763, 3813, 3864, 3916, 3968, 4020, 4072, 4125, 4179, 4233, 4287,
     4342, 4397, 4452, 4508, 4564, 4621, 4678, 4735, 4793, 4851, 4910, 4969, 5029, 5089, 5149, 5210,
     5271, 5333, 5395, 5457, 5520, 5583, 5647, 5711, 5776, 5841, 5906, 5972, 6038, 6105, 6172, 6240,
     6308, 6376, 6445, 6514, 6584, 6654, 6724, 6795, 6867, 6939, 7011, 7084, 7157, 7231, 7305, 7379,
     7454, 7529, 7605, 7682, 7758, 7835, 7913, 7991, 8070, 8148, 8228, 8308, 8388, 8469, 8550, 8632,
     8714, 8796, 8879, 8963, 9047, 9131, 9216, 9301, 9387, 9473, 9560, 9647, 9734, 9823, 9911, 10000 >>

\* The gamma expansion of a channel value v (times ChanScale), times 10000:
\* the table at the integer below v, interpolated to the next.
GammaExpand(v) ==
    LET i == v \div ChanScale
        f == v % ChanScale
    IN  IF i >= 255 THEN SrgbLinear[256]
        ELSE SrgbLinear[i + 1]
               + ((SrgbLinear[i + 2] - SrgbLinear[i + 1]) * f) \div ChanScale

\* t > 0.008856 ? Math.pow(t, 1/3) : 7.787 * t + 16 / 116, for t given
\* times 10000; the value times 1000.
LabF(t) ==
    IF t > 88 THEN CubeRootIn(t * 100000, 0, 1001)
    ELSE (7787 * t + (16 * 10000000) \div 116 + 5000) \div 10000

\* rgbToLab(r, g, b): channels times ChanScale in, Lab in tenths out.
rgbToLab(r, g, b) ==
    LET r_ == GammaExpand(r)
        g_ == GammaExpand(g)
        b_ == GammaExpand(b)
        x == ((r_ * 4124 + g_ * 3576 + b_ * 1805) * 10) \div 95047
        y == ((r_ * 2126 + g_ * 7152 + b_ * 722) * 10) \div 100000
        z == ((r_ * 193 + g_ * 1192 + b_ * 9505) * 10) \div 108883
        fx == LabF(x)
        fy == LabF(y)
        fz == LabF(z)
    IN  << (116 * fy - 16000) \div 100, 5 * (fx - fy), 2 * (fy - fz) >>

\* The square of deltaE(lab1, lab2), in squared tenths.
deltaESq(lab1, lab2) ==
    (lab1[1] - lab2[1]) * (lab1[1] - lab2[1])
      + (lab1[2] - lab2[2]) * (lab1[2] - lab2[2])
      + (lab1[3] - lab2[3]) * (lab1[3] - lab2[3])

---------------------------------------------------------------------------
(* Palette store: color_utils.ts *)

\* brandNames.  The four brands written in Chinese in the source are
\* written here in pinyin.
brandNames == << "mard", "manman", "panpan", "mixiaowo", "COCO", "kaka" >>

\* The value of an absent property or of an index out of range.
Undefined == "undefined"

\* rawPaletteData after trim().split('\n') and, per line, split(','): a
\* header row and data rows; a hex field is a sequence of characters.  The
\* file palette_data.ts is not part of the sources at hand: this table is
\* a sample in its format, with a repeated colour, rows whose hex field
\* fails the test of parsePalettes, a hex field that is no hex number, and
\* codes that are empty or absent.
rawPaletteData ==
  << << "hex", "mard", "manman", "panpan", "mixiaowo", "COCO", "kaka" >>,
     << << "#", "F", "F", "F", "F", "F", "F" >>, "H1", "M1", "P1", "X1", "C1", "K1" >>,
     << << "#", "e", "b", "e", "b", "e", "b" >>, "H2", "M2", "",   "X2", "",   "" >>,
     << << "F", "F", "0", "0", "0", "0" >>,      "H9", "M9", "P9", "X9", "C9", "K9" >>,
     << << "#", "F", "F", "0", "0", "0", "0" >>, "H3", "M3", "P3", "",   "C3", "" >>,
     << << " ", "#", "F", "F", "1", "E", "1", "E", " " >>, "H4", "", "P4", "X4", "C4" >>,
     << << "#", "F", "0", "0" >>,                "H8", "M8", "P8", "X8", "C8", "K8" >>,
     << << "#", "F", "F", "0", "0", "0", "0" >>, "H5", "M5", "",   "",   "C5", "K5" >>,
     << << "#", "8", "0", "8", "0", "8", "0" >>, "H6", "",   "P6", "X6", " ",  "" >>,
     << << "#", "0", "0", "0", "0", "G", "G" >>, "H7", "M7", "",   "",   "",   "" >>
  >>

HexDigits ==
    [ch \in {"0", "1", "2", "3", "4", "5", "6", "7", "8", "9",
             "a", "b", "c", "d", "e", "f", "A", "B", "C", "D", "E", "F"} |->
        CASE ch = "0" -> 0 [] ch = "1" -> 1 [] ch = "2" -> 2 [] ch = "3" -> 3
          [] ch = "4" -> 4 [] ch = "5" -> 5 [] ch = "6" -> 6 [] ch = "7" -> 7
          [] ch = "8" -> 8 [] ch = "9" -> 9
          [] ch \in {"a", "A"} -> 10 [] ch \in {"b", "B"} -> 11
          [] ch \in {"c", "C"} -> 12 [] ch \in {"d", "D"} -> 13
          [] ch \in {"e", "E"} -> 14 [] ch \in {"f", "F"} -> 15]

\* String.prototype.trim on a sequence of characters.
RECURSIVE trimChars(_)
trimChars(s) ==
    IF s = << >> THEN s
    ELSE IF Head(s) = " " THEN trimChars(Tail(s))
    ELSE IF s[Len(s)] = " " THEN trimChars(SubSeq(s, 1, Len(s) - 1))
    ELSE s

\* String.prototype.trim on a code, a string of the model: the codes of
\* the table carry no blanks around them, a blank code trims to "".
trimCode(code) == IF code \in {" ", "  "} THEN "" ELSE code

\* parseInt(two hex digits, 16)
parseHexPair(s, i) == 16 * HexDigits[s[i]] + HexDigits[s[i + 1]]

\* hexToRgb: /^#?([a-f\d]{2})([a-f\d]{2})([a-f\d]{2})$/i, else [0, 0, 0].
hexToRgb(hex) ==
    LET digits == IF hex # << >> /\ Head(hex) = "#" THEN Tail(hex) ELSE hex
    IN  IF Len(digits) = 6 /\ \A i \in 1..6 : digits[i] \in DOMAIN HexDigits
        THEN << parseHexPair(digits, 1), parseHexPair(digits, 3),
                parseHexPair(digits, 5) >>
        ELSE << 0, 0, 0 >>

\* Array.prototype.indexOf, 0-based, -1 when absent.
indexOf(seq, x) ==
    IF \E i \in 1..Len(seq) : seq[i] = x
    THEN (CHOOSE i \in 1..Len(seq) :
              seq[i] = x /\ \A j \in 1..(i - 1) : seq[j] # x) - 1
    ELSE -1

\* parts[idx], 0-based.
elementAt(parts, idx) ==
    IF idx >= 0 /\ idx < Len(parts) THEN parts[idx + 1] ELSE Undefined

\* A palette entry.  isExternal is absent from the entries parsePalettes
\* builds; an absent isExternal reads as false.
ColorInfo(code, rgb, lab) ==
    [code |-> code, rgb |-> rgb, lab |-> lab, isExternal |-> FALSE]

\* The test of a data row: the hex field starts with '#' and has 7 characters.
validHex(hex) == hex # << >> /\ Head(hex) = "#" /\ Len(hex) = 7

\* The code of a row for a brand: parts[idx]?.trim().
brandCode(headers, parts, brand) ==
    LET field == elementAt(parts, indexOf(headers, brand))
    IN  IF field = Undefined THEN Undefined ELSE trimCode(field)

\* parseRows without the test of the hex field.
RECURSIVE parseRowsUnchecked(_, _, _)
parseRowsUnchecked(lines, i, brand) ==
    IF i > Len(lines) THEN << >>
    ELSE LET parts == lines[i]
             hex == trimChars(parts[1])
             rgb == hexToRgb(hex)
             lab == rgbToLab(rgb[1] * ChanScale, rgb[2] * ChanScale,
                             rgb[3] * ChanScale)
             code == brandCode(lines[1], parts, brand)
         IN  IF code # Undefined /\ code # ""
             THEN << ColorInfo(code, rgb, lab) >>
                    \o parseRowsUnchecked(lines, i + 1, brand)
             ELSE parseRowsUnchecked(lines, i + 1, brand)

\* The entries the rows i.. of lines add to the palette of a brand.
RECURSIVE parseRows(_, _, _)
parseRows(lines, i, brand) ==
    IF i > Len(lines) THEN << >>
    ELSE LET parts == lines[i]
             hex == trimChars(parts[1])
             rgb == hexToRgb(hex)
             lab == rgbToLab(rgb[1] * ChanScale, rgb[2] * ChanScale,
                             rgb[3] * ChanScale)
             code == brandCode(lines[1], parts, brand)
         IN  IF ~validHex(hex) THEN parseRows(lines, i + 1, brand)
             ELSE IF code # Undefined /\ code # ""
             THEN << ColorInfo(code, rgb, lab) >> \o parseRows(lines, i + 1, brand)
             ELSE parseRows(lines, i + 1, brand)

parsePalettes(lines) ==
    [brand \in {brandNames[k] : k \in 1..Len(brandNames)} |->
        parseRows(lines, 2, brand)]

---------------------------------------------------------------------------
(* Nearest-colour matcher: color_utils.ts *)

\* What findClosestColor returns for a palette without entries:
\* palette[0], which is undefined.
NoColor == [code |-> Undefined, rgb |-> << >>, lab |-> << >>, isExternal |-> FALSE]

\* A lookup that falls back to the first brand for an unknown key.
lookupPaletteOrFirst(paletteKey) ==
    IF paletteKey \in DOMAIN palettes
    THEN [defined |-> TRUE, entries |-> palettes[paletteKey]]
    ELSE [defined |-> TRUE, entries |-> palettes[brandNames[1]]]

\* palettes[paletteKey]: undefined for a key that is no property of palettes.
lookupPalette(paletteKey) ==
    IF paletteKey \in DOMAIN palettes
    THEN [defined |-> TRUE, entries |-> palettes[paletteKey]]
    ELSE [defined |-> FALSE, entries |-> << >>]

\* The comparison with <= in the place of <.
closerOrEqual(distance, minDistance) ==
    minDistance = -1 \/ distance <= minDistance

\* The comparison of the scan: distance < minDistance; minDistance is
\* Infinity until an entry has been taken, written -1 here.
closer(distance, minDistance) == minDistance = -1 \/ distance < minDistance

\* The loop of findClosestColor from entry i on, with the running
\* minDistance and closest.
RECURSIVE scanPalette(_, _, _, _, _)
scanPalette(palette, lab, i, minDistance, closest) ==
    IF i > Len(palette) THEN closest
    ELSE LET distance == deltaESq(lab, palette[i].lab)
         IN  IF closer(distance, minDistance)
             THEN scanPalette(palette, lab, i + 1, distance, palette[i])
             ELSE scanPalette(palette, lab, i + 1, minDistance, closest)

\* let closest = palette[0] throws a TypeError when palette is undefined.
findClosestColorThrows(paletteKey) == ~lookupPalette(paletteKey).defined

\* findClosestColor(r, g, b, paletteKey), the channels times ChanScale.
findClosestColor(r, g, b, paletteKey) ==
    LET lab == rgbToLab(r, g, b)
        palette == lookupPalette(paletteKey).entries
    IN  IF palette = << >> THEN NoColor
        ELSE scanPalette(palette, lab, 1, -1, palette[1])

---------------------------------------------------------------------------
(* PerlerBeadGenerator.generate: the centre crop *)

\* The quotients of the crop are held exactly, as fractions <<n, d>> with
\* d > 0.
fracOf(n) == << n, 1 >>
fracMul(a, b) == << a[1] * b[1], a[2] * b[2] >>
fracDiv(a, b) == << a[1] * b[2], a[2] * b[1] >>
fracSub(a, b) == << a[1] * b[2] - b[1] * a[2], a[2] * b[2] >>
fracAdd(a, b) == << a[1] * b[2] + b[1] * a[2], a[2] * b[2] >>
fracLess(a, b) == a[1] * b[2] < b[1] * a[2]
fracEq(a, b) == a[1] * b[2] = b[1] * a[2]

\* The crop with the test of the two ratios turned round.
cropRectTurned(imgW, imgH, targetW, targetH) ==
    LET targetRatio == fracDiv(fracOf(targetW), fracOf(targetH))
        imgRatio == fracDiv(fracOf(imgW), fracOf(imgH))
    IN  IF fracLess(imgRatio, targetRatio)
        THEN LET cropW == fracMul(fracOf(imgH), targetRatio)
             IN  [cropX |-> fracDiv(fracSub(fracOf(imgW), cropW), fracOf(2)),
                  cropY |-> fracOf(0), cropW |-> cropW, cropH |-> fracOf(imgH)]
        ELSE LET cropH == fracDiv(fracOf(imgW), targetRatio)
             IN  [cropX |-> fracOf(0),
                  cropY |-> fracDiv(fracSub(fracOf(imgH), cropH), fracOf(2)),
                  cropW |-> fracOf(imgW), cropH |-> cropH]

\* 1. Calculate crop and scale (Center Crop): cropX, cropY, cropW, cropH.
cropRect(imgW, imgH, targetW, targetH) ==
    LET targetRatio == fracDiv(fracOf(targetW), fracOf(targetH))
        imgRatio == fracDiv(fracOf(imgW), fracOf(imgH))
    IN  IF fracLess(targetRatio, imgRatio)
        THEN LET cropW == fracMul(fracOf(imgH), targetRatio)
             IN  [cropX |-> fracDiv(fracSub(fracOf(imgW), cropW), fracOf(2)),
                  cropY |-> fracOf(0), cropW |-> cropW, cropH |-> fracOf(imgH)]
        ELSE LET cropH == fracDiv(fracOf(imgW), targetRatio)
             IN  [cropX |-> fracOf(0),
                  cropY |-> fracDiv(fracSub(fracOf(imgH), cropH), fracOf(2)),
                  cropW |-> fracOf(imgW), cropH |-> cropH]

---------------------------------------------------------------------------
(* PerlerBeadGenerator.generate: the processing buffer and the flood fill *)

Algorithms == {"nearest", "average", "gradient_enhanced", "dominant_pooling"}

\* const procW = targetW * 4; const procH = targetH * 4
Oversample == 4

\* A pixel is <<r, g, b, a>>.  The pixel with index idx (from 0) is
\* procData[idx * 4 .. idx * 4 + 3] of the source and data[idx + 1] here;
\* isBackgroundMask[idx] of the source is mask[idx + 1] here.
Red(px) == px[1]
Green(px) == px[2]
Blue(px) == px[3]
Alpha(px) == px[4]

\* The test with "<=": a pixel at the distance backgroundTolerance * 2
\* passes.
isBgColorInclusive(px, backgroundTolerance) ==
    (255 - Red(px)) * (255 - Red(px))
      + (255 - Green(px)) * (255 - Green(px))
      + (255 - Blue(px)) * (255 - Blue(px))
        <= (backgroundTolerance * 2) * (backgroundTolerance * 2)

\* isBgColor: Math.sqrt(dr^2 + dg^2 + db^2) < backgroundTolerance * 2,
\* both sides squared (backgroundTolerance >= 0).
isBgColor(px, backgroundTolerance) ==
    (255 - Red(px)) * (255 - Red(px))
      + (255 - Green(px)) * (255 - Green(px))
      + (255 - Blue(px)) * (255 - Blue(px))
        < (backgroundTolerance * 2) * (backgroundTolerance * 2)

\* The neighbours the flood fill pushes for the pixel (r, c), in its order.
fillNeighbours(r, c, procW, procH) ==
    (IF r > 0 THEN << <<r - 1, c>> >> ELSE << >>)
      \o (IF r < procH - 1 THEN << <<r + 1, c>> >> ELSE << >>)
      \o (IF c > 0 THEN << <<r, c - 1>> >> ELSE << >>)
      \o (IF c < procW - 1 THEN << <<r, c + 1>> >> ELSE << >>)

\* The corners and the pixel in the middle of the buffer.
fillSeedsWithCentre(procW, procH) ==
    << <<0, 0>>, <<0, procW - 1>>, <<procH - 1, 0>>, <<procH - 1, procW - 1>>,
       <<procH \div 2, procW \div 2>> >>

\* The corners and the pixel in the middle of the top edge.
fillSeedsWithTopMiddle(procW, procH) ==
    << <<0, 0>>, <<0, procW - 1>>, <<procH - 1, 0>>, <<procH - 1, procW - 1>>,
       <<0, procW \div 2>> >>

\* The corners the queue starts with.
fillSeeds(procW, procH) ==
    << <<0, 0>>, <<0, procW - 1>>, <<procH - 1, 0>>, <<procH - 1, procW - 1>> >>

\* The state of the flood fill before its loop: the locals visited, queue
\* and head, and isBackgroundMask (visited[idx] is visited[idx + 1] here).
fillStart(procW, procH) ==
    [visited |-> tuple([k \in 1..(procW * procH) |-> 0], procW * procH),
     queue |-> fillSeeds(procW, procH),
     head |-> 0,
     mask |-> tuple([k \in 1..(procW * procH) |-> 0], procW * procH)]

\* A pass that marks a pixel as visited only when it is of the background
\* colour.
fillStepMarkingMasked(data, procW, procH, tol, s) ==
    IF s.head >= Len(s.queue) THEN s
    ELSE LET r == s.queue[s.head + 1][1]
             c == s.queue[s.head + 1][2]
             idx == r * procW + c
         IN  IF s.visited[idx + 1] = 1 THEN [s EXCEPT !.head = @ + 1]
             ELSE IF isBgColor(data[idx + 1], tol)
             THEN [visited |-> [s.visited EXCEPT ![idx + 1] = 1],
                   queue |-> s.queue \o fillNeighbours(r, c, procW, procH),
                   head |-> s.head + 1,
                   mask |-> [s.mask EXCEPT ![idx + 1] = 1]]
             ELSE [s EXCEPT !.head = @ + 1]

\* One pass through "while (head < queue.length) { ... }"; the state stays
\* as it is once the loop has ended.
fillStep(data, procW, procH, tol, s) ==
    IF s.head >= Len(s.queue) THEN s
    ELSE LET r == s.queue[s.head + 1][1]
             c == s.queue[s.head + 1][2]
             idx == r * procW + c
         IN  IF s.visited[idx + 1] = 1 THEN [s EXCEPT !.head = @ + 1]
             ELSE IF isBgColor(data[idx + 1], tol)
             THEN [visited |-> [s.visited EXCEPT ![idx + 1] = 1],
                   queue |-> s.queue \o fillNeighbours(r, c, procW, procH),
                   head |-> s.head + 1,
                   mask |-> [s.mask EXCEPT ![idx + 1] = 1]]
             ELSE [s EXCEPT !.visited[idx + 1] = 1, !.head = @ + 1]

\* n passes through the loop from the state s; the state after the first
\* half of the passes is computed before the second half starts.
RECURSIVE fillSteps(_, _, _, _, _, _)
fillSteps(data, procW, procH, tol, s, n) ==
    IF n = 0 THEN s
    ELSE IF n = 1 THEN fillStep(data, procW, procH, tol, s)
    ELSE CHOOSE after \in
           { fillSteps(data, procW, procH, tol, half, n - n \div 2) :
               half \in { fillSteps(data, procW, procH, tol, s, n \div 2) } } : TRUE

\* The loop run to its end.  The queue holds the four corners and at most
\* four entries for every pixel, pushed when the pixel is visited, so the
\* loop has ended after 4 + 4 * procW * procH passes.
floodFill(data, procW, procH, tol) ==
    fillSteps(data, procW, procH, tol, fillStart(procW, procH),
              4 + 4 * procW * procH)

\* isBackgroundMask after the block "if (removeBackground) { ... }".
backgroundMask(data, procW, procH, removeBackground, tol) ==
    IF removeBackground THEN floodFill(data, procW, procH, tol).mask
    ELSE tuple([k \in 1..(procW * procH) |-> 0], procW * procH)

---------------------------------------------------------------------------
(* PerlerBeadGenerator.generate: the four sampling strategies *)

\* The clamp without the brightness offset.
adjustWithoutOffset(v, brightness) == Min(255, Max(0, v))

\* Math.min(255, Math.max(0, procData[idx] + bOffset)), bOffset = brightness * 15
adjust(v, brightness) == Min(255, Max(0, v + brightness * 15))

\* A copy that is flagged whatever the cell is.
cellInfoFlagged(color, background) == [color EXCEPT !.isExternal = TRUE]

\* const info = { ...color }; if (background) info.isExternal = true
cellInfo(color, background) ==
    IF background THEN [color EXCEPT !.isExternal = TRUE] ELSE color

\* const blockW = procW / targetW (and blockH alike)
blockSize(proc, target) == proc \div target

\* Math.floor(r * blockH + blockH / 2)
blockCentre(r, block) == r * block + block \div 2

\* startY and endY (startX and endX) of the block r: the pixel rows
\* (columns) startY .. endY - 1.
blockStart(r, block) == r * block
blockEndShort(r, block, proc) == Min((r + 1) * block - 1, proc)
blockEnd(r, block, proc) == Min((r + 1) * block, proc)

\* The blocks of one axis of a grid of target cells: for the cell r (from
\* 1) the first pixel, the pixel after the last and the pixel 'nearest'
\* samples, in a buffer of proc = target * 4 pixels along that axis.
blocksOf(target) ==
    LET proc == target * Oversample
        block == blockSize(proc, target)
    IN  tuple([r \in 1..target |->
                 [start |-> blockStart(r - 1, block),
                  end |-> blockEnd(r - 1, block, proc),
                  centre |-> blockCentre(r - 1, block)]], target)

\* algorithm === 'nearest': the cell (r, c), counted from 0.
nearestCell(data, mask, r, c, procW, blockW, blockH, paletteKey, brightness, removeBackground) ==
    LET pr == blockCentre(r, blockH)
        pc == blockCentre(c, blockW)
        px == data[pr * procW + pc + 1]
        color == findClosestColor(adjust(Red(px), brightness) * ChanScale,
                                  adjust(Green(px), brightness) * ChanScale,
                                  adjust(Blue(px), brightness) * ChanScale,
                                  paletteKey)
    IN  cellInfo(color, removeBackground /\ mask[pr * procW + pc + 1] = 1)

\* Math.round(v / 10) * 10
roundToTen(v) == ((v + 5) \div 10) * 10

\* colorFreq.get(key).count++, after colorFreq.set(key, ...) for a new key.
\* colorFreq is the sequence of its entries in insertion order.
countColor(colorFreq, key, rv, gv, bv) ==
    IF \E i \in 1..Len(colorFreq) : colorFreq[i].key = key
    THEN tuple([i \in 1..Len(colorFreq) |->
                  IF colorFreq[i].key = key
                  THEN [colorFreq[i] EXCEPT !.count = @ + 1]
                  ELSE colorFreq[i]], Len(colorFreq))
    ELSE Append(colorFreq, [key |-> key, r |-> rv, g |-> gv, b |-> bv, count |-> 1])

\* The number of pixels the two loops over a block visit.
blockPixels(startX, endX, startY, endY) ==
    Max(0, endX - startX) * Max(0, endY - startY)

\* The body of the loops of 'dominant_pooling' without the "continue" of a
\* transparent pixel before the test of the mask.
poolPixelTwice(data, mask, procW, startX, endX, startY, brightness, removeBackground, k, acc) ==
    LET x == startX + (k % (endX - startX))
        y == startY + (k \div (endX - startX))
        px == data[y * procW + x + 1]
        rv == adjust(Red(px), brightness)
        gv == adjust(Green(px), brightness)
        bv == adjust(Blue(px), brightness)
        key == <<roundToTen(rv), roundToTen(gv), roundToTen(bv)>>
        masked == removeBackground /\ mask[y * procW + x + 1] = 1
    IN  IF Alpha(px) < 10
        THEN [acc EXCEPT !.bgCount = @ + 1 + (IF masked THEN 1 ELSE 0),
                         !.totalCount = @ + 1]
        ELSE [colorFreq |-> countColor(acc.colorFreq, key, rv, gv, bv),
              bgCount |-> acc.bgCount + (IF masked THEN 1 ELSE 0),
              totalCount |-> acc.totalCount + 1]

\* The body of the two loops over the block's pixels of 'dominant_pooling'
\* for the pixel k of the block in row-major order: acc holds colorFreq,
\* bgCount and totalCount.
poolPixel(data, mask, procW, startX, endX, startY, brightness, removeBackground, k, acc) ==
    LET x == startX + (k % (endX - startX))
        y == startY + (k \div (endX - startX))
        px == data[y * procW + x + 1]
        rv == adjust(Red(px), brightness)
        gv == adjust(Green(px), brightness)
        bv == adjust(Blue(px), brightness)
        key == <<roundToTen(rv), roundToTen(gv), roundToTen(bv)>>
        masked == removeBackground /\ mask[y * procW + x + 1] = 1
    IN  IF Alpha(px) < 10
        THEN [acc EXCEPT !.bgCount = @ + 1, !.totalCount = @ + 1]
        ELSE [colorFreq |-> countColor(acc.colorFreq, key, rv, gv, bv),
              bgCount |-> acc.bgCount + (IF masked THEN 1 ELSE 0),
              totalCount |-> acc.totalCount + 1]

\* The loops of 'dominant_pooling' over the n pixels of the block from
\* pixel k on; the first half of the pixels is done before the second.
RECURSIVE poolPixels(_, _, _, _, _, _, _, _, _, _, _)
poolPixels(data, mask, procW, startX, endX, startY, brightness, removeBackground, k, n, acc) ==
    IF n = 0 THEN acc
    ELSE IF n = 1 THEN poolPixel(data, mask, procW, startX, endX, startY, brightness, removeBackground, k, acc)
    ELSE CHOOSE after \in
           { poolPixels(data, mask, procW, startX, endX, startY, brightness,
                        removeBackground, k + n \div 2, n - n \div 2, half) :
               half \in { poolPixels(data, mask, procW, startX, endX, startY,
                                     brightness, removeBackground, k, n \div 2,
                                     acc) } } : TRUE

\* "for (let y = startY; y < endY; y++) for (let x = startX; x < endX; x++)"
\* of 'dominant_pooling', from empty counts.
poolBlock(data, mask, procW, startX, endX, startY, endY, brightness, removeBackground) ==
    poolPixels(data, mask, procW, startX, endX, startY, brightness,
               removeBackground, 0, blockPixels(startX, endX, startY, endY),
               [colorFreq |-> << >>, bgCount |-> 0, totalCount |-> 0])

\* The forEach with >= in the place of >: of the entries with the highest
\* count the last one is kept.
RECURSIVE dominantOfLast(_, _, _, _)
dominantOfLast(colorFreq, i, maxCount, dominant) ==
    IF i > Len(colorFreq) THEN dominant
    ELSE IF colorFreq[i].count >= maxCount
    THEN dominantOfLast(colorFreq, i + 1, colorFreq[i].count,
                        <<colorFreq[i].r, colorFreq[i].g, colorFreq[i].b>>)
    ELSE dominantOfLast(colorFreq, i + 1, maxCount, dominant)

\* colorFreq.forEach(val => { if (val.count > maxCount) ... })
RECURSIVE dominantOf(_, _, _, _)
dominantOf(colorFreq, i, maxCount, dominant) ==
    IF i > Len(colorFreq) THEN dominant
    ELSE IF colorFreq[i].count > maxCount
    THEN dominantOf(colorFreq, i + 1, colorFreq[i].count,
                    <<colorFreq[i].r, colorFreq[i].g, colorFreq[i].b>>)
    ELSE dominantOf(colorFreq, i + 1, maxCount, dominant)

\* bgCount / count >= 0.5 in the place of > 0.5.
atLeastHalf(bgCount, count) == count > 0 /\ 2 * bgCount >= count

\* bgCount / count > 0.5; 0 / 0 is NaN, and NaN > 0.5 is false.
moreThanHalf(bgCount, count) == count > 0 /\ 2 * bgCount > count

\* algorithm === 'dominant_pooling': the cell (r, c), counted from 0.
dominantCell(data, mask, r, c, procW, procH, blockW, blockH, paletteKey, brightness, removeBackground) ==
    LET pool == poolBlock(data, mask, procW,
                          blockStart(c, blockW), blockEnd(c, blockW, procW),
                          blockStart(r, blockH), blockEnd(r, blockH, procH),
                          brightness, removeBackground)
        dominant == dominantOf(pool.colorFreq, 1, -1, <<255, 255, 255>>)
        color == findClosestColor(dominant[1] * ChanScale, dominant[2] * ChanScale,
                                  dominant[3] * ChanScale, paletteKey)
    IN  cellInfo(color, removeBackground
                          /\ moreThanHalf(pool.bgCount, pool.totalCount))

\* The body of the two loops over the block's pixels of the 'average'
\* branch for the pixel k of the block in row-major order: acc holds the
\* sums of the adjusted channels, count and bgCount.
sumPixel(data, mask, procW, startX, endX, startY, brightness, removeBackground, k, acc) ==
    LET x == startX + (k % (endX - startX))
        y == startY + (k \div (endX - startX))
        px == data[y * procW + x + 1]
        masked == removeBackground /\ mask[y * procW + x + 1] = 1
    IN  [sumR |-> acc.sumR + adjust(Red(px), brightness),
         sumG |-> acc.sumG + adjust(Green(px), brightness),
         sumB |-> acc.sumB + adjust(Blue(px), brightness),
         count |-> acc.count + 1,
         bgCount |-> acc.bgCount + (IF masked THEN 1 ELSE 0)]

\* The loops of the 'average' branch over the n pixels of the block from
\* pixel k on; the first half of the pixels is done before the second.
RECURSIVE sumPixels(_, _, _, _, _, _, _, _, _, _, _)
sumPixels(data, mask, procW, startX, endX, startY, brightness, removeBackground, k, n, acc) ==
    IF n = 0 THEN acc
    ELSE IF n = 1 THEN sumPixel(data, mask, procW, startX, endX, startY, brightness, removeBackground, k, acc)
    ELSE CHOOSE after \in
           { sumPixels(data, mask, procW, startX, endX, startY, brightness,
                       removeBackground, k + n \div 2, n - n \div 2, half) :
               half \in { sumPixels(data, mask, procW, startX, endX, startY,
                                    brightness, removeBackground, k, n \div 2,
                                    acc) } } : TRUE

\* "for (let y = startY; y < endY; y++) for (let x = startX; x < endX; x++)"
\* of the 'average' branch, from sums of zero.
sumBlock(data, mask, procW, startX, endX, startY, endY, brightness, removeBackground) ==
    sumPixels(data, mask, procW, startX, endX, startY, brightness,
              removeBackground, 0, blockPixels(startX, endX, startY, endY),
              [sumR |-> 0, sumG |-> 0, sumB |-> 0, count |-> 0, bgCount |-> 0])

\* rawGrid[r][c] = { r: sumR / count, g: sumG / count, b: sumB / count, isBg },
\* the averages times ChanScale (count divides ChanScale * sum for the block
\* sizes that occur).
averageCell(data, mask, r, c, procW, procH, blockW, blockH, brightness, removeBackground) ==
    LET sums == sumBlock(data, mask, procW,
                         blockStart(c, blockW), blockEnd(c, blockW, procW),
                         blockStart(r, blockH), blockEnd(r, blockH, procH),
                         brightness, removeBackground)
        count == IF sums.count = 0 THEN 1 ELSE sums.count
    IN  [r |-> (sums.sumR * ChanScale) \div count,
         g |-> (sums.sumG * ChanScale) \div count,
         b |-> (sums.sumB * ChanScale) \div count,
         isBg |-> removeBackground /\ moreThanHalf(sums.bgCount, count)]

\* rawGrid, rows and cells counted from 1.
rawGridOf(data, mask, targetW, targetH, procW, procH, blockW, blockH, brightness, removeBackground) ==
    tuple([r \in 1..targetH |->
             tuple([c \in 1..targetW |->
                      averageCell(data, mask, r - 1, c - 1, procW, procH,
                                  blockW, blockH, brightness, removeBackground)],
                   targetW)],
          targetH)

\* The cells (nr, nc) around (r, c) inside the grid, in the order of dirs;
\* rows and cells counted from 1.
gridNeighbours(r, c, targetW, targetH) ==
    (IF r > 1 THEN << <<r - 1, c>> >> ELSE << >>)
      \o (IF r < targetH THEN << <<r + 1, c>> >> ELSE << >>)
      \o (IF c > 1 THEN << <<r, c - 1>> >> ELSE << >>)
      \o (IF c < targetW THEN << <<r, c + 1>> >> ELSE << >>)

\* The sum of f[i] over i in 1..n.
RECURSIVE sumOver(_, _)
sumOver(f, n) == IF n = 0 THEN 0 ELSE f[n] + sumOver(f, n - 1)

\* The test with diffSum in the place of avgDiff.
isFlatOfSum(diffSum, neighbors) == diffSum < 15 * ChanScale

\* avgDiff < 15, with avgDiff = neighbors > 0 ? diffSum / neighbors : 0
isFlat(diffSum, neighbors) ==
    IF neighbors > 0 THEN diffSum < 15 * ChanScale * neighbors ELSE TRUE

\* Math.min(255, Math.max(0, v)) for a channel times ChanScale
clampChannel(v) == Min(255 * ChanScale, Max(0, v))

\* The sharpened channel without the share of the missing edges.
sharpenInsideOnly(center, neighbourSum, missingEdges) ==
    clampChannel((center * 20 - neighbourSum) \div 10)

\* center * weightCenter + sum of neighbours * weightEdge
\*   + center * (missingEdges * weightEdge), weightCenter = 2, weightEdge = -0.1
sharpen(center, neighbourSum, missingEdges) ==
    clampChannel((center * 20 - neighbourSum - center * missingEdges) \div 10)

\* enhancedGrid[r][c] with the sharpened cell pushed without its isBg.
enhancedCellUnflagged(rawGrid, r, c, targetW, targetH) ==
    LET center == rawGrid[r][c]
        near == gridNeighbours(r, c, targetW, targetH)
        neighbors == Len(near)
        cellAt(i) == rawGrid[near[i][1]][near[i][2]]
        diffSum == sumOver([i \in 1..neighbors |->
                              Abs(center.r - cellAt(i).r)
                                + Abs(center.g - cellAt(i).g)
                                + Abs(center.b - cellAt(i).b)], neighbors)
        missingEdges == 4 - neighbors
    IN  IF isFlat(diffSum, neighbors) THEN center
        ELSE [r |-> sharpen(center.r,
                            sumOver([i \in 1..neighbors |-> cellAt(i).r], neighbors),
                            missingEdges),
              g |-> sharpen(center.g,
                            sumOver([i \in 1..neighbors |-> cellAt(i).g], neighbors),
                            missingEdges),
              b |-> sharpen(center.b,
                            sumOver([i \in 1..neighbors |-> cellAt(i).b], neighbors),
                            missingEdges),
              isBg |-> FALSE]

\* enhancedGrid[r][c]; rows and cells counted from 1.
enhancedCell(rawGrid, r, c, targetW, targetH) ==
    LET center == rawGrid[r][c]
        near == gridNeighbours(r, c, targetW, targetH)
        neighbors == Len(near)
        cellAt(i) == rawGrid[near[i][1]][near[i][2]]
        diffSum == sumOver([i \in 1..neighbors |->
                              Abs(center.r - cellAt(i).r)
                                + Abs(center.g - cellAt(i).g)
                                + Abs(center.b - cellAt(i).b)], neighbors)
        missingEdges == 4 - neighbors
    IN  IF isFlat(diffSum, neighbors) THEN center
        ELSE [r |-> sharpen(center.r,
                            sumOver([i \in 1..neighbors |-> cellAt(i).r], neighbors),
                            missingEdges),
              g |-> sharpen(center.g,
                            sumOver([i \in 1..neighbors |-> cellAt(i).g], neighbors),
                            missingEdges),
              b |-> sharpen(center.b,
                            sumOver([i \in 1..neighbors |-> cellAt(i).b], neighbors),
                            missingEdges),
              isBg |-> center.isBg]

\* enhancedGrid of 'gradient_enhanced'.
enhancedGridOf(rawGrid, targetW, targetH) ==
    tuple([r \in 1..targetH |->
             tuple([c \in 1..targetW |->
                      enhancedCell(rawGrid, r, c, targetW, targetH)], targetW)],
          targetH)

\* The closing loops with the inner loop one cell short.
matchGridShort(colours, targetW, targetH, paletteKey) ==
    tuple([r \in 1..targetH |->
             tuple([c \in 1..(targetW - 1) |->
                      cellInfo(findClosestColor(colours[r][c].r, colours[r][c].g,
                                                colours[r][c].b, paletteKey),
                               colours[r][c].isBg)], targetW - 1)],
          targetH)

\* The closing loops of the 'average' and 'gradient_enhanced' branches:
\* every cell of the averaged grid matched against the palette.
matchGrid(colours, targetW, targetH, paletteKey) ==
    tuple([r \in 1..targetH |->
             tuple([c \in 1..targetW |->
                      cellInfo(findClosestColor(colours[r][c].r, colours[r][c].g,
                                                colours[r][c].b, paletteKey),
                               colours[r][c].isBg)], targetW)],
          targetH)

\* The grid that the branch of the algorithm builds.
gridOf(data, mask, targetW, targetH, procW, procH, algorithm, paletteKey, brightness, removeBackground) ==
    LET blockW == blockSize(procW, targetW)
        blockH == blockSize(procH, targetH)
    IN  IF algorithm = "nearest"
        THEN tuple([r \in 1..targetH |->
                      tuple([c \in 1..targetW |->
                               nearestCell(data, mask, r - 1, c - 1, procW,
                                           blockW, blockH, paletteKey,
                                           brightness, removeBackground)],
                            targetW)], targetH)
        ELSE IF algorithm = "dominant_pooling"
        THEN tuple([r \in 1..targetH |->
                      tuple([c \in 1..targetW |->
                               dominantCell(data, mask, r - 1, c - 1, procW, procH,
                                            blockW, blockH, paletteKey,
                                            brightness, removeBackground)],
                            targetW)], targetH)
        ELSE IF algorithm = "gradient_enhanced"
        THEN CHOOSE matched \in
               { matchGrid(enhancedGrid, targetW, targetH, paletteKey) :
                   enhancedGrid \in
                     { enhancedGridOf(rawGrid, targetW, targetH) :
                         rawGrid \in
                           { rawGridOf(data, mask, targetW, targetH, procW, procH,
                                       blockW, blockH, brightness,
                                       removeBackground) } } } : TRUE
        ELSE CHOOSE matched \in
               { matchGrid(rawGrid, targetW, targetH, paletteKey) :
                   rawGrid \in
                     { rawGridOf(data, mask, targetW, targetH, procW, procH,
                                 blockW, blockH, brightness,
                                 removeBackground) } } : TRUE

---------------------------------------------------------------------------
(* Statistics of a grid: drawPattern (draw_utils.ts) and the colour list of
   the advanced tab (App.tsx) *)

\* grid.flat(): the cells of g from row r on, in row-major order.
RECURSIVE flatten(_, _)
flatten(g, r) == IF r > Len(g) THEN << >> ELSE g[r] \o flatten(g, r + 1)

\* if (!statsMap.has(cell.code)) statsMap.set(cell.code, { color, count: 0 });
\* statsMap.get(cell.code).count++ -- statsMap in insertion order.
countCode(statsMap, code) ==
    IF \E i \in 1..Len(statsMap) : statsMap[i].code = code
    THEN tuple([i \in 1..Len(statsMap) |->
                  IF statsMap[i].code = code
                  THEN [statsMap[i] EXCEPT !.count = @ + 1]
                  ELSE statsMap[i]], Len(statsMap))
    ELSE Append(statsMap, [code |-> code, count |-> 1])

\* The place of entry e in the list sorted by (a, b) => b.count - a.count:
\* behind every entry whose count is not smaller (the sort is stable).
RECURSIVE insertByCount(_, _)
insertByCount(sorted, e) ==
    IF sorted = << >> THEN <<e>>
    ELSE IF sorted[1].count >= e.count
    THEN <<sorted[1]>> \o insertByCount(Tail(sorted), e)
    ELSE <<e>> \o sorted

\* Array.from(statsMap.values()).sort((a, b) => b.count - a.count)
RECURSIVE sortByCount(_, _, _)
sortByCount(statsMap, k, sorted) ==
    IF k > Len(statsMap) THEN sorted
    ELSE sortByCount(statsMap, k + 1, insertByCount(sorted, statsMap[k]))

\* The loops of drawPattern over the cells: if (cell.isExternal) continue.
RECURSIVE drawStatsLoop(_, _, _)
drawStatsLoop(cells, i, statsMap) ==
    IF i > Len(cells) THEN statsMap
    ELSE IF cells[i].isExternal THEN drawStatsLoop(cells, i + 1, statsMap)
    ELSE drawStatsLoop(cells, i + 1, countCode(statsMap, cells[i].code))

\* stats of drawPattern: the entries [code, count] by falling count.
drawPatternStats(g) ==
    sortByCount(drawStatsLoop(flatten(g, 1), 1, << >>), 1, << >>)

\* const cols = grid[0].length throws a TypeError for a grid without rows.
drawPatternThrows(g) == Len(g) = 0

\* grid.flat().forEach(cell => ...) of the colour list: every cell counts.
RECURSIVE colorListLoop(_, _, _)
colorListLoop(cells, i, statsMap) ==
    IF i > Len(cells) THEN statsMap
    ELSE colorListLoop(cells, i + 1, countCode(statsMap, cells[i].code))

\* The entries [code, count] of the colour list, by falling count.
colorList(g) ==
    sortByCount(colorListLoop(flatten(g, 1), 1, << >>), 1, << >>)

---------------------------------------------------------------------------
(* PerlerBeadGenerator.generate as a whole *)

\* getImageData(0, 0, procW, procH) throws an IndexSizeError when the
\* width or the height is 0.
getImageDataThrows(procW, procH) == procW = 0 \/ procH = 0

NoGrid == << >>

\* const info = color: the cell is the palette entry itself.
infoIsEntryItself(color) == TRUE

\* const info = { ...color }: info is a new object that holds the
\* properties of the entry; it is not the palette entry that
\* findClosestColor returned.
infoIsEntry(color) == FALSE

\* The palette entries, as <<code, rgb, lab>>, that the assignments
\* "info.isExternal = true" made while the grid g was built have written to.
writtenEntries(g) ==
    { <<g[r][c].code, g[r][c].rgb, g[r][c].lab>> :
        <<r, c>> \in { p \in UNION { { <<r, c>> : c \in 1..Len(g[r]) } :
                                        r \in 1..Len(g) } :
                         /\ g[p[1]][p[2]].isExternal
                         /\ infoIsEntry(g[p[1]][p[2]]) } }

\* The grid as its cells read once those entries are written: a cell that
\* is a palette entry shows what was written to the entry.
gridRead(g, written) ==
    tuple([r \in 1..Len(g) |->
             tuple([c \in 1..Len(g[r]) |->
                      IF /\ infoIsEntry(g[r][c])
                         /\ <<g[r][c].code, g[r][c].rgb, g[r][c].lab>> \in written
                      THEN [g[r][c] EXCEPT !.isExternal = TRUE]
                      ELSE g[r][c]], Len(g[r]))], Len(g))

\* The palette store once those entries of palettes[paletteKey] are written.
storeWritten(paletteKey, written) ==
    [palettes EXCEPT ![paletteKey] =
       tuple([i \in 1..Len(palettes[paletteKey]) |->
                IF <<palettes[paletteKey][i].code, palettes[paletteKey][i].rgb,
                     palettes[paletteKey][i].lab>> \in written
                THEN [palettes[paletteKey][i] EXCEPT !.isExternal = TRUE]
                ELSE palettes[paletteKey][i]], Len(palettes[paletteKey]))]

\* The outcome of a call that threw before it built a grid.
Threw(data, mask) ==
    [status |-> "threw", grid |-> NoGrid, procData |-> data,
     isBackgroundMask |-> mask, palettes |-> palettes]

\* generate(imageSource, targetW, targetH, algorithm, paletteKey, brightness,
\* removeBackground, backgroundTolerance).  data is what drawImage leaves in
\* the processing canvas of procW x procH pixels.  The outcome records the
\* locals procData and isBackgroundMask next to the grid, and the palette
\* store as the call leaves it.
generate(data, targetW, targetH, algorithm, paletteKey, brightness, removeBackground, backgroundTolerance) ==
    LET procW == targetW * Oversample
        procH == targetH * Oversample
    IN  IF getImageDataThrows(procW, procH) THEN Threw(<< >>, << >>)
        ELSE CHOOSE outcome \in
               { IF findClosestColorThrows(paletteKey) THEN Threw(data, mask)
                 ELSE LET g == gridOf(data, mask, targetW, targetH, procW, procH,
                                      algorithm, paletteKey, brightness,
                                      removeBackground)
                      IN  IF drawPatternThrows(g) THEN Threw(data, mask)
                          ELSE [status |-> "returned",
                                grid |-> gridRead(g, writtenEntries(g)),
                                procData |-> data, isBackgroundMask |-> mask,
                                palettes |-> storeWritten(paletteKey,
                                                          writtenEntries(g))] :
                   mask \in { backgroundMask(data, procW, procH, removeBackground,
                                             backgroundTolerance) } } : TRUE

---------------------------------------------------------------------------
(* Region Merge Engine: mergeRegion and autoMerge, called by App.tsx and
   described in section 4.7 of the design specification.  The merged region
   takes the seed's colour. *)

\* A comparison that takes no threshold beyond the end of the slider.
similarColorCapped(a, b, threshold) ==
    deltaESq(a.lab, b.lab) < (Min(threshold, 100) * 10) * (Min(threshold, 100) * 10)

\* deltaE(a.lab, b.lab) < threshold, Lab in tenths.
similarColor(a, b, threshold) ==
    deltaESq(a.lab, b.lab) < (threshold * 10) * (threshold * 10)

\* An expansion that asks for no similarity.
mergeNeighboursAnyColour(g, r, c, seedColor, threshold) ==
    SelectSeq(gridNeighbours(r, c, Len(g[1]), Len(g)),
              LAMBDA n : ~g[n[1]][n[2]].isExternal)

\* An expansion that enters background cells.
mergeNeighboursAnyCell(g, r, c, seedColor, threshold) ==
    SelectSeq(gridNeighbours(r, c, Len(g[1]), Len(g)),
              LAMBDA n : similarColor(g[n[1]][n[2]], seedColor, threshold))

\* The cells a merge may enter from (r, c): the 4-connected neighbours that
\* are no background and whose colour is similar to the seed's.
mergeNeighbours(g, r, c, seedColor, threshold) ==
    SelectSeq(gridNeighbours(r, c, Len(g[1]), Len(g)),
              LAMBDA n : /\ ~g[n[1]][n[2]].isExternal
                         /\ similarColor(g[n[1]][n[2]], seedColor, threshold))

\* The breadth-first search from the seed: the set of cells reached.
RECURSIVE mergeBfs(_, _, _, _, _, _)
mergeBfs(g, seedColor, threshold, queue, head, region) ==
    IF head >= Len(queue) THEN region
    ELSE LET cell == queue[head + 1]
         IN  IF cell \in region
             THEN mergeBfs(g, seedColor, threshold, queue, head + 1, region)
             ELSE mergeBfs(g, seedColor, threshold,
                           queue \o mergeNeighbours(g, cell[1], cell[2],
                                                    seedColor, threshold),
                           head + 1, region \cup {cell})

\* A search that starts from any seed with any threshold.
mergeRegionCellsUnguarded(g, r, c, threshold) ==
    mergeBfs(g, g[r][c], threshold, << <<r, c>> >>, 0, {})

\* The region a merge seeded at (r, c) rewrites; rows and cells from 1.
\* A seed on a background cell and a threshold <= 0 merge nothing.
mergeRegionCells(g, r, c, threshold) ==
    IF g[r][c].isExternal \/ threshold <= 0 THEN {}
    ELSE mergeBfs(g, g[r][c], threshold, << <<r, c>> >>, 0, {})

\* The grid with code, rgb and lab of the cells of region taken from color.
recolor(g, region, color) ==
    tuple([r \in 1..Len(g) |->
             tuple([c \in 1..Len(g[r]) |->
                      IF <<r, c>> \in region
                      THEN [g[r][c] EXCEPT !.code = color.code,
                                           !.rgb = color.rgb,
                                           !.lab = color.lab]
                      ELSE g[r][c]], Len(g[r]))], Len(g))

\* mergeRegion(grid, seedRow, seedCol, threshold), the seed counted from 0.
mergeRegion(g, seedRow, seedCol, threshold) ==
    recolor(g, mergeRegionCells(g, seedRow + 1, seedCol + 1, threshold),
            g[seedRow + 1][seedCol + 1])

\* A sweep whose merges leave the cells alone that an earlier merge of the
\* sweep has covered.
RECURSIVE autoMergeFromUnmerged(_, _, _, _)
autoMergeFromUnmerged(g, threshold, k, merged) ==
    IF g = << >> \/ k >= Len(g) * Len(g[1]) THEN g
    ELSE LET r == k \div Len(g[1])
             c == k % Len(g[1])
             region == mergeRegionCells(g, r + 1, c + 1, threshold) \ merged
         IN  IF <<r + 1, c + 1>> \in merged \/ g[r + 1][c + 1].isExternal
             THEN autoMergeFromUnmerged(g, threshold, k + 1, merged)
             ELSE autoMergeFromUnmerged(recolor(g, region, g[r + 1][c + 1]),
                                        threshold, k + 1, merged \cup region)

\* The row-major sweep of autoMerge from the cell number k (from 0) on;
\* merged holds the cells that a merge of this sweep has covered.
RECURSIVE autoMergeFrom(_, _, _, _)
autoMergeFrom(g, threshold, k, merged) ==
    IF g = << >> \/ k >= Len(g) * Len(g[1]) THEN g
    ELSE LET r == k \div Len(g[1])
             c == k % Len(g[1])
             region == mergeRegionCells(g, r + 1, c + 1, threshold)
         IN  IF <<r + 1, c + 1>> \in merged \/ g[r + 1][c + 1].isExternal
             THEN autoMergeFrom(g, threshold, k + 1, merged)
             ELSE autoMergeFrom(mergeRegion(g, r, c, threshold), threshold,
                                k + 1, merged \cup region)

\* autoMerge(grid, threshold)
autoMerge(g, threshold) == autoMergeFrom(g, threshold, 0, {})

---------------------------------------------------------------------------
(* The inputs of the calls *)

\* Pixels <<r, g, b, a>> of a processing buffer.
White == <<255, 255, 255, 255>>
OffWhite == <<235, 235, 235, 255>>
Scarlet == <<255, 0, 0, 255>>
Crimson == <<255, 30, 30, 255>>
Vermilion == <<250, 14, 14, 255>>
Grey == <<128, 128, 128, 255>>
Black == <<0, 0, 0, 255>>
Clear == <<0, 0, 0, 0>>
ClearWhite == <<255, 255, 255, 0>>
Pearl == <<252, 252, 252, 255>>

\* <<base, ink>>: the colour of a buffer and the colour of the box in it.
Paints ==
    { <<White, Scarlet>>, <<White, OffWhite>>, <<Scarlet, White>>,
      <<Clear, Scarlet>> }

\* <<x0, x1, y0, y1, hollow>>: the box covers the columns x0 .. x1 - 1 and
\* the rows y0 .. y1 - 1; a hollow box is only its one-pixel outline.
Boxes(procW, procH) ==
    { <<0, procW, 0, procH, FALSE>>,
      <<0, procW \div 2, 0, procH, FALSE>>,
      <<1, procW - 1, 1, procH - 1, FALSE>>,
      <<1, procW - 1, 1, procH - 1, TRUE>>,
      <<0, procW \div 2, 0, procH, TRUE>> }

\* The buffer of procW x procH pixels with the box drawn in ink on base.
Image(procW, procH, paint, box) ==
    tuple([k \in 1..(procW * procH) |->
             LET x == (k - 1) % procW
                 y == (k - 1) \div procW
                 onBox == /\ box[1] <= x /\ x < box[2]
                          /\ box[3] <= y /\ y < box[4]
                 inside == /\ box[1] < x /\ x < box[2] - 1
                           /\ box[3] < y /\ y < box[4] - 1
             IN  IF onBox /\ ~(box[5] /\ inside) THEN paint[2] ELSE paint[1]],
          procW * procH)

\* The colours of the four quarters of a buffer: top left, top right,
\* bottom left, bottom right.
Quilts ==
    { <<White, OffWhite, Scarlet, Crimson>>,
      <<Scarlet, White, Grey, Black>>,
      <<Scarlet, White, White, Black>>,
      <<Vermilion, ClearWhite, White, Black>>,
      <<White, Pearl, Pearl, White>> }

\* The buffer of procW x procH pixels with its quarters in those colours.
Quilt(procW, procH, quarters) ==
    tuple([k \in 1..(procW * procH) |->
             LET x == (k - 1) % procW
                 y == (k - 1) \div procW
             IN  quarters[(IF 2 * y < procH THEN 1 ELSE 3)
                            + (IF 2 * x < procW THEN 0 ELSE 1)]],
          procW * procH)

Images(procW, procH) ==
    { Image(procW, procH, paint, box) :
        paint \in Paints, box \in Boxes(procW, procH) }
      \cup { Quilt(procW, procH, quarters) : quarters \in Quilts }

\* The limits handleGenerate clamps the size of the grid to.
MaxGridDim == 120

TargetWidths == 0..MaxTargetW
TargetHeights == 0..MaxTargetH
PaletteKeys == {"mard", "dmc"}
Brightnesses == {0, 2}
\* <<removeBackground, backgroundTolerance>>
BackgroundSettings == { <<FALSE, 30>>, <<TRUE, 0>>, <<TRUE, 10>>, <<TRUE, 30>> }

\* The calls of generate.
GenerateCalls ==
    { [op |-> "generate", data |-> data, targetW |-> w, targetH |-> h,
       algorithm |-> a, paletteKey |-> k, brightness |-> b,
       removeBackground |-> bg[1], backgroundTolerance |-> bg[2]] :
        <<w, h, data>> \in UNION { { <<w, h, d>> :
                                      d \in Images(w * Oversample, h * Oversample) } :
                                    w \in TargetWidths, h \in TargetHeights },
        a \in Algorithms, k \in PaletteKeys, b \in Brightnesses,
        bg \in BackgroundSettings }

Channels == {0, 30, 128, 235, 255}
MatchKeys == {"mard", "manman", "panpan", "mixiaowo", "COCO", "kaka", "dmc"}

\* The calls of findClosestColor.
MatchCalls ==
    { [op |-> "findClosestColor", r |-> r, g |-> g, b |-> b, paletteKey |-> k] :
        r \in Channels, g \in Channels, b \in Channels, k \in MatchKeys }

\* The thresholds of the merges that are tried: values of the slider of
\* App.tsx (0 to 100) and values outside it.
Thresholds == {-15, 0, 15, 100, 200}

\* Hex fields of data rows, as sequences of characters: a red, a red with
\* blanks around it, fields without '#', fields of other lengths, a field
\* of seven characters that is no hex number, an empty field.
HexFields ==
    { << "#", "F", "F", "0", "0", "0", "0" >>,
      << " ", "#", "F", "F", "1", "E", "1", "E", " " >>,
      << "F", "F", "0", "0", "0", "0" >>,
      << "0", "F", "F", "0", "0", "0", "0" >>,
      << "#", "F", "0", "0" >>,
      << "#", "F", "F", "0", "0", "0", "0", "0" >>,
      << "#", "0", "0", "0", "0", "G", "G" >>,
      << >> }

\* The code fields of data rows: a code for every column, a shorter row
\* with an empty and a blank code, and a row that ends after its hex field.
CodeFields ==
    { << "H1", "M1", "P1", "X1", "C1", "K1" >>,
      << "H2", "", " ", "X2" >>,
      << >> }

DataRows == { << hex >> \o codes : hex \in HexFields, codes \in CodeFields }

\* Header rows: the columns of the six brands, and a header without the
\* column of one brand and with two columns exchanged.
Headers ==
    { << "hex", "mard", "manman", "panpan", "mixiaowo", "COCO", "kaka" >>,
      << "hex", "manman", "mard", "panpan", "mixiaowo", "COCO" >> }

---------------------------------------------------------------------------
(* The license server: server.ts *)

\* The value of the column fingerprint of a key that is not bound (SQL
\* NULL); no request carries it.
Null == "<null>"

\* What req.body or a header holds for a property that is missing.
Missing == ""

ADMIN_KEYS == {"zaojuzi777", "haibaihe"}

\* INSERT OR IGNORE INTO licenses ... 'VIP-8888', 'TEST-0000'
seedLicenses == [k \in {"VIP-8888", "TEST-0000"} |-> Null]

\* logLogin(status): a row of login_logs (the ip is left out).
logLogin(logs, key, fingerprint, status) ==
    Append(logs, [key |-> key, fingerprint |-> fingerprint, status |-> status])

\* The handler of POST /api/verify that takes any fingerprint for a bound key.
verifyAnyDevice(table, logs, key, fingerprint) ==
    IF key = Missing \/ fingerprint = Missing
    THEN [status |-> 400, success |-> FALSE, isAdmin |-> FALSE,
          licenses |-> table, login_logs |-> logs]
    ELSE IF key \in ADMIN_KEYS
    THEN [status |-> 200, success |-> TRUE, isAdmin |-> TRUE,
          licenses |-> table,
          login_logs |-> logLogin(logs, key, fingerprint, "admin_success")]
    ELSE IF key \notin DOMAIN table
    THEN [status |-> 404, success |-> FALSE, isAdmin |-> FALSE,
          licenses |-> table,
          login_logs |-> logLogin(logs, key, fingerprint, "invalid_key")]
    ELSE IF table[key] # Null
    THEN [status |-> 200, success |-> TRUE, isAdmin |-> FALSE,
          licenses |-> table,
          login_logs |-> logLogin(logs, key, fingerprint, "success")]
    ELSE [status |-> 200, success |-> TRUE, isAdmin |-> FALSE,
          licenses |-> [table EXCEPT ![key] = fingerprint],
          login_logs |-> logLogin(logs, key, fingerprint, "bound_success")]

\* The handler of POST /api/verify: the response and the tables after it.
verify(table, logs, key, fingerprint) ==
    IF key = Missing \/ fingerprint = Missing
    THEN [status |-> 400, success |-> FALSE, isAdmin |-> FALSE,
          licenses |-> table, login_logs |-> logs]
    ELSE IF key \in ADMIN_KEYS
    THEN [status |-> 200, success |-> TRUE, isAdmin |-> TRUE,
          licenses |-> table,
          login_logs |-> logLogin(logs, key, fingerprint, "admin_success")]
    ELSE IF key \notin DOMAIN table
    THEN [status |-> 404, success |-> FALSE, isAdmin |-> FALSE,
          licenses |-> table,
          login_logs |-> logLogin(logs, key, fingerprint, "invalid_key")]
    ELSE IF table[key] # Null
    THEN IF table[key] = fingerprint
         THEN [status |-> 200, success |-> TRUE, isAdmin |-> FALSE,
               licenses |-> table,
               login_logs |-> logLogin(logs, key, fingerprint, "success")]
         ELSE [status |-> 403, success |-> FALSE, isAdmin |-> FALSE,
               licenses |-> table,
               login_logs |-> logLogin(logs, key, fingerprint,
                                       "fingerprint_mismatch")]
    ELSE [status |-> 200, success |-> TRUE, isAdmin |-> FALSE,
          licenses |-> [table EXCEPT ![key] = fingerprint],
          login_logs |-> logLogin(logs, key, fingerprint, "bound_success")]

\* isAdmin(req): the header x-admin-key is one of ADMIN_KEYS.
isAdmin(adminKey) == adminKey \in ADMIN_KEYS

\* The handler of POST /api/admin/keys: the status and the table after it.
addKey(table, adminKey, key) ==
    IF ~isAdmin(adminKey) THEN [status |-> 403, licenses |-> table]
    ELSE IF key = Missing THEN [status |-> 400, licenses |-> table]
    ELSE IF key \in DOMAIN table THEN [status |-> 400, licenses |-> table]
    ELSE [status |-> 200,
          licenses |-> [k \in DOMAIN table \cup {key} |->
                          IF k = key THEN Null ELSE table[k]]]

\* The handler of DELETE /api/admin/keys/:key.
deleteKey(table, adminKey, key) ==
    IF ~isAdmin(adminKey) THEN [status |-> 403, licenses |-> table]
    ELSE [status |-> 200,
          licenses |-> [k \in DOMAIN table \ {key} |-> table[k]]]

\* The keys, fingerprints and admin headers of the requests.
LicenseKeys == {"VIP-8888", "NEW-1", "zaojuzi777", Missing}
Fingerprints == {"fp-A", "fp-B", Missing}
AdminHeaders == {"haibaihe", "guess"}

\* The keys that the admin requests add and delete.
ManagedKeys == {"VIP-8888", "NEW-1"}

---------------------------------------------------------------------------
(* The state machine *)

Pending == [status |-> "pending"]

\* No flood fill is followed pass by pass.
fillAtRest ==
    /\ fill = [visited |-> << >>, queue |-> << >>, head |-> 0, mask |-> << >>]
    /\ tested = << >>

\* The state of App after its first render: the initial values of its
\* useState calls; no request is under way.  The item 'perler_license' is
\* whatever an earlier visit left in localStorage.
appStart ==
    /\ activeTab = "base"
    /\ isAuth = FALSE
    /\ isAdminFlag = FALSE
    /\ isCheckingAuth = TRUE
    /\ isActivating = FALSE
    /\ perler_license = "none"
    /\ verifying = "none"
    /\ image = "none"
    /\ isGenerating = FALSE
    /\ generation = [at |-> "idle", src |-> "none"]
    /\ selectedColorCodes = << >>
    /\ isLocked = FALSE

\* export const palettes = parsePalettes(rawPaletteData)
loadedPalettes == parsePalettes(rawPaletteData)

\* palettes is built when color_utils.ts loads; one call of the library is
\* about to be made.
Init ==
    /\ palettes = loadedPalettes
    /\ call \in MatchCalls \cup GenerateCalls
    /\ result = Pending
    /\ procData = << >>
    /\ isBackgroundMask = << >>
    /\ grid = NoGrid
    /\ licenses = seedLicenses
    /\ login_logs = << >>
    /\ reply = [op |-> "none"]
    /\ fillAtRest
    /\ appStart

\* findClosestColor(r, g, b, paletteKey) runs.
Match ==
    /\ call.op = "findClosestColor"
    /\ result = Pending
    /\ result' = IF findClosestColorThrows(call.paletteKey)
                 THEN [status |-> "threw"]
                 ELSE [status |-> "returned",
                       color |-> findClosestColor(call.r * ChanScale,
                                                  call.g * ChanScale,
                                                  call.b * ChanScale,
                                                  call.paletteKey)]
    /\ UNCHANGED <<palettes, call, procData, isBackgroundMask, grid>>
    /\ UNCHANGED serverVars
    /\ UNCHANGED <<fillVars, appVars>>

\* generate runs; its caller handleGenerate keeps the grid of a call that
\* returned (setGrid(result.grid)).
Generate ==
    /\ call.op = "generate"
    /\ result = Pending
    /\ \E done \in { generate(call.data, call.targetW, call.targetH,
                              call.algorithm, call.paletteKey, call.brightness,
                              call.removeBackground, call.backgroundTolerance) } :
          /\ result' = [status |-> done.status, grid |-> done.grid]
          /\ procData' = done.procData
          /\ isBackgroundMask' = done.isBackgroundMask
          /\ grid' = IF done.status = "returned" THEN done.grid ELSE grid
          /\ palettes' = done.palettes
    /\ UNCHANGED call
    /\ UNCHANGED serverVars
    /\ UNCHANGED <<fillVars, appVars>>

\* handleCanvasClick in merge mode: mergeRegion on the grid that is held,
\* seeded at a cell of the grid.  The grids tried are those that generate
\* returned and those that autoMerge made of them.
MergeRegion ==
    /\ grid # NoGrid
    /\ result # Pending
    /\ call.op \in {"generate", "autoMerge"}
    /\ \E r \in 0..(Len(grid) - 1), c \in 0..(Len(grid[1]) - 1),
          bfsThreshold \in Thresholds :
          \E newGrid \in { mergeRegion(grid, r, c, bfsThreshold) } :
             /\ call' = [op |-> "mergeRegion", grid |-> grid, seedRow |-> r,
                         seedCol |-> c, threshold |-> bfsThreshold]
             /\ result' = [status |-> "returned", grid |-> newGrid]
             /\ grid' = newGrid
    /\ procData' = << >>
    /\ isBackgroundMask' = << >>
    /\ UNCHANGED palettes
    /\ UNCHANGED serverVars
    /\ UNCHANGED <<fillVars, appVars>>

\* handleAutoMerge: autoMerge on the grid that is held.  The grids tried
\* are those that generate returned.
AutoMerge ==
    /\ grid # NoGrid
    /\ result # Pending
    /\ call.op = "generate"
    /\ \E bfsThreshold \in Thresholds :
          \E newGrid \in { autoMerge(grid, bfsThreshold) } :
             /\ call' = [op |-> "autoMerge", grid |-> grid,
                         threshold |-> bfsThreshold]
             /\ result' = [status |-> "returned", grid |-> newGrid]
             /\ grid' = newGrid
    /\ procData' = << >>
    /\ isBackgroundMask' = << >>
    /\ UNCHANGED palettes
    /\ UNCHANGED serverVars
    /\ UNCHANGED <<fillVars, appVars>>

Next == Match \/ Generate \/ MergeRegion \/ AutoMerge

Spec == Init /\ [][Next]_vars

\* The server after its start: the tables exist and the two test keys are
\* inserted; no call of the core is followed.
ServerInit ==
    /\ licenses = seedLicenses
    /\ login_logs = << >>
    /\ reply = [op |-> "none"]
    /\ palettes = loadedPalettes
    /\ call = [op |-> "none"]
    /\ result = Pending
    /\ procData = << >>
    /\ isBackgroundMask = << >>
    /\ grid = NoGrid
    /\ fillAtRest
    /\ appStart

\* POST /api/verify is handled; the handler runs to its end before the
\* next request is taken (one thread, synchronous database calls).
Verify ==
    /\ Len(login_logs) < MaxLogs
    /\ \E key \in LicenseKeys, fingerprint \in Fingerprints :
          \E done \in { verify(licenses, login_logs, key, fingerprint) } :
             /\ licenses' = done.licenses
             /\ login_logs' = done.login_logs
             /\ reply' = [op |-> "verify", key |-> key,
                          fingerprint |-> fingerprint, status |-> done.status,
                          success |-> done.success, isAdmin |-> done.isAdmin]
    /\ UNCHANGED coreVars
    /\ UNCHANGED <<fillVars, appVars>>

\* POST /api/admin/keys is handled.
AdminAddKey ==
    /\ \E adminKey \in AdminHeaders, key \in ManagedKeys \cup {Missing} :
          \E done \in { addKey(licenses, adminKey, key) } :
             /\ licenses' = done.licenses
             /\ reply' = [op |-> "addKey", key |-> key, adminKey |-> adminKey,
                          status |-> done.status]
    /\ UNCHANGED login_logs
    /\ UNCHANGED coreVars
    /\ UNCHANGED <<fillVars, appVars>>

\* DELETE /api/admin/keys/:key is handled.
AdminDeleteKey ==
    /\ \E adminKey \in AdminHeaders, key \in ManagedKeys :
          \E done \in { deleteKey(licenses, adminKey, key) } :
             /\ licenses' = done.licenses
             /\ reply' = [op |-> "deleteKey", key |-> key, adminKey |-> adminKey,
                          status |-> done.status]
    /\ UNCHANGED login_logs
    /\ UNCHANGED coreVars
    /\ UNCHANGED <<fillVars, appVars>>

ServerNext == Verify \/ AdminAddKey \/ AdminDeleteKey

ServerSpec == ServerInit /\ [][ServerNext]_vars

\* The palette store before the module color_utils.ts is evaluated:
\* parsedPalettes as parsePalettes starts with it.
emptyPalettes == [brand \in {brandNames[k] : k \in 1..Len(brandNames)} |-> << >>]

\* The source tables that are loaded: a header row and up to MaxRows data
\* rows.
SourceTables ==
    { << h >> \o rows :
        h \in Headers, rows \in UNION { [1..n -> DataRows] : n \in 0..MaxRows } }

\* Before the module is evaluated, for every source table.
PaletteInit ==
    /\ palettes = emptyPalettes
    /\ call \in { [op |-> "parsePalettes", lines |-> t] : t \in SourceTables }
    /\ result = Pending
    /\ procData = << >>
    /\ isBackgroundMask = << >>
    /\ grid = NoGrid
    /\ licenses = seedLicenses
    /\ login_logs = << >>
    /\ reply = [op |-> "none"]
    /\ fillAtRest
    /\ appStart

\* export const palettes = parsePalettes()
LoadPalettes ==
    /\ call.op = "parsePalettes"
    /\ result = Pending
    /\ palettes' = parsePalettes(call.lines)
    /\ result' = [status |-> "returned"]
    /\ UNCHANGED <<call, procData, isBackgroundMask, grid>>
    /\ UNCHANGED serverVars
    /\ UNCHANGED <<fillVars, appVars>>

PaletteNext == LoadPalettes

PaletteSpec == PaletteInit /\ [][PaletteNext]_vars

\* The sizes of source images and of targets for which the crop is computed.
CropSizes == 1..MaxSize

\* generate is entered with an image of imgW x imgH and a target.
CropInit ==
    /\ palettes = loadedPalettes
    /\ call \in { [op |-> "crop", imgW |-> iw, imgH |-> ih,
                   targetW |-> tw, targetH |-> th] :
                     iw \in CropSizes, ih \in CropSizes,
                     tw \in CropSizes, th \in CropSizes }
    /\ result = Pending
    /\ procData = << >>
    /\ isBackgroundMask = << >>
    /\ grid = NoGrid
    /\ licenses = seedLicenses
    /\ login_logs = << >>
    /\ reply = [op |-> "none"]
    /\ fillAtRest
    /\ appStart

\* The first step of generate: the crop rectangle.
Crop ==
    /\ call.op = "crop"
    /\ result = Pending
    /\ result' = [status |-> "cropped",
                  crop |-> cropRect(call.imgW, call.imgH,
                                    call.targetW, call.targetH)]
    /\ UNCHANGED <<palettes, call, procData, isBackgroundMask, grid>>
    /\ UNCHANGED serverVars
    /\ UNCHANGED <<fillVars, appVars>>

CropNext == Crop

CropSpec == CropInit /\ [][CropNext]_vars

\* The sizes of the grids whose blocks are laid out: every width from 1 to
\* MaxGridDim, with a height equal to it or far from it.
BlockCalls ==
    { [op |-> "blocks", targetW |-> w, targetH |-> h] :
        <<w, h>> \in { <<w, w>> : w \in 1..MaxGridDim }
                       \cup { <<w, MaxGridDim + 1 - w>> : w \in 1..MaxGridDim } }

\* generate is entered with a target size that the caller has clamped.
BlockInit ==
    /\ palettes = loadedPalettes
    /\ call \in BlockCalls
    /\ result = Pending
    /\ procData = << >>
    /\ isBackgroundMask = << >>
    /\ grid = NoGrid
    /\ licenses = seedLicenses
    /\ login_logs = << >>
    /\ reply = [op |-> "none"]
    /\ fillAtRest
    /\ appStart

\* The block geometry of generate: startX, endX and pc of every column,
\* startY, endY and pr of every row, and the pixels the two loops of a
\* strategy visit in the block of each cell.
LayOutBlocks ==
    /\ call.op = "blocks"
    /\ result = Pending
    /\ result' = [status |-> "blocks",
                  procW |-> call.targetW * Oversample,
                  procH |-> call.targetH * Oversample,
                  cols |-> blocksOf(call.targetW),
                  rows |-> blocksOf(call.targetH)]
    /\ UNCHANGED <<palettes, call, procData, isBackgroundMask, grid>>
    /\ UNCHANGED serverVars
    /\ UNCHANGED <<fillVars, appVars>>

BlockNext == LayOutBlocks

BlockSpec == BlockInit /\ [][BlockNext]_vars

\* The flood fill followed pass by pass.  The buffers are those of the
\* calls of generate with one row or one column of cells, and two buffers
\* with a near-white stretch on the top edge that holds no corner.
Notch(procW, procH) ==
    Image(procW, procH, <<Scarlet, White>>,
          <<1, procW - 1, 0, procH \div 2, FALSE>>)

Inlet(procW, procH) ==
    tuple([k \in 1..(procW * procH) |->
             LET x == (k - 1) % procW
                 y == (k - 1) \div procW
             IN  IF x = 0 THEN White
                 ELSE IF y = 0 /\ 2 <= x /\ x < procW - 1 THEN Pearl
                 ELSE Scarlet],
          procW * procH)

FillSizes ==
    { <<w * Oversample, Oversample>> : w \in 1..MaxTargetW }
      \cup { <<Oversample, h * Oversample>> : h \in 1..MaxTargetH }

FillTolerances == {0, 10, 30}

FillCalls ==
    { [op |-> "floodFill", data |-> data, procW |-> size[1],
       procH |-> size[2], backgroundTolerance |-> tol] :
        <<size, data>> \in UNION { { <<sz, d>> :
                                       d \in Images(sz[1], sz[2])
                                               \cup { Notch(sz[1], sz[2]),
                                                      Inlet(sz[1], sz[2]) } } :
                                     sz \in FillSizes },
        tol \in FillTolerances }

\* generate has read the processing buffer and is about to enter the block
\* "if (removeBackground) { ... }".
FillInit ==
    /\ palettes = loadedPalettes
    /\ call \in FillCalls
    /\ result = Pending
    /\ procData = << >>
    /\ isBackgroundMask = << >>
    /\ grid = NoGrid
    /\ licenses = seedLicenses
    /\ login_logs = << >>
    /\ reply = [op |-> "none"]
    /\ fillAtRest
    /\ appStart

\* visited, queue and head are set up and the corners are pushed.
StartFill ==
    /\ call.op = "floodFill"
    /\ result = Pending
    /\ result' = [status |-> "filling"]
    /\ procData' = call.data
    /\ fill' = fillStart(call.procW, call.procH)
    /\ isBackgroundMask' = fillStart(call.procW, call.procH).mask
    /\ tested' = tuple([k \in 1..(call.procW * call.procH) |-> 0],
                       call.procW * call.procH)
    /\ UNCHANGED <<palettes, call, grid>>
    /\ UNCHANGED serverVars
    /\ UNCHANGED appVars

\* One pass through the body of "while (head < queue.length)".  tested
\* counts, for every pixel, the passes that went beyond
\* "if (visited[idx]) continue" for it: the passes that call isBgColor on
\* it and push its neighbours when it is of the background colour.
FillPass ==
    /\ call.op = "floodFill"
    /\ result.status = "filling"
    /\ fill.head < Len(fill.queue)
    /\ fill' = fillStep(procData, call.procW, call.procH,
                        call.backgroundTolerance, fill)
    /\ isBackgroundMask' = fill'.mask
    /\ LET idx == fill.queue[fill.head + 1][1] * call.procW
                     + fill.queue[fill.head + 1][2]
       IN  tested' = IF fill.visited[idx + 1] = 1 THEN tested
                     ELSE [tested EXCEPT ![idx + 1] = @ + 1]
    /\ UNCHANGED <<palettes, call, result, procData, grid>>
    /\ UNCHANGED serverVars
    /\ UNCHANGED appVars

\* The test of the while loop fails: the loop is left.
EndFill ==
    /\ call.op = "floodFill"
    /\ result.status = "filling"
    /\ fill.head >= Len(fill.queue)
    /\ result' = [status |-> "returned"]
    /\ UNCHANGED <<palettes, call, procData, isBackgroundMask, grid>>
    /\ UNCHANGED serverVars
    /\ UNCHANGED <<fillVars, appVars>>

FillNext == StartFill \/ FillPass \/ EndFill

FillSpec == FillInit /\ [][FillNext]_vars

\* generate is one synchronous call: its loop goes on as long as it has a
\* pass to make.
FillFairSpec == FillSpec /\ WF_vars(FillNext)

---------------------------------------------------------------------------
(* The application: App.tsx *)

\* What /api/verify answers (server.ts): success with or without isAdmin,
\* or no success; "failed" stands for a request that got no answer that
\* res.json() could read.
VerifyAnswers ==
    { [op |-> "verify", status |-> "answered", success |-> TRUE,
       isAdmin |-> TRUE],
      [op |-> "verify", status |-> "answered", success |-> TRUE,
       isAdmin |-> FALSE],
      [op |-> "verify", status |-> "answered", success |-> FALSE,
       isAdmin |-> FALSE],
      [op |-> "verify", status |-> "failed", success |-> FALSE,
       isAdmin |-> FALSE] }

\* What a call of generate made by handleGenerate comes to: a grid (here the
\* one of a picture of four colours, two cells by two) or an exception.
generateOutcomes ==
    { [status |-> "threw", grid |-> NoGrid] }
      \cup { [status |-> done.status, grid |-> done.grid] :
               done \in { generate(Quilt(2 * Oversample, 2 * Oversample,
                                         <<White, OffWhite, Scarlet, Crimson>>),
                                   2, 2, "nearest", "mard", 0, FALSE, 30) } }

\* The codes of the cells of the grid g.
codesOf(g) ==
    { g[r][c].code : <<r, c>> \in { <<i, j>> : i \in 1..Len(g),
                                               j \in 1..Len(g[1]) } }

\* prev.includes(code)
includes(prev, code) == \E i \in 1..Len(prev) : prev[i] = code

\* prev.filter(c => c !== code)
RECURSIVE without(_, _)
without(prev, code) ==
    IF prev = << >> THEN << >>
    ELSE IF Head(prev) = code THEN without(Tail(prev), code)
    ELSE << Head(prev) >> \o without(Tail(prev), code)

\* The update with a fourth code let in.
toggledOverfull(prev, code, locked) ==
    IF locked
    THEN IF includes(prev, code) THEN without(prev, code)
         ELSE IF Len(prev) > 3 THEN prev
         ELSE Append(prev, code)
    ELSE IF includes(prev, code) /\ Len(prev) = 1 THEN << >> ELSE << code >>

\* toggleColorSelection: the update of selectedColorCodes from prev.
toggled(prev, code, locked) ==
    IF locked
    THEN IF includes(prev, code) THEN without(prev, code)
         ELSE IF Len(prev) >= 3 THEN prev
         ELSE Append(prev, code)
    ELSE IF includes(prev, code) /\ Len(prev) = 1 THEN << >> ELSE << code >>

\* The advanced tab shows its tools: the tab is chosen, the check of the
\* saved key is over and the device is activated.
AdvancedOpen == activeTab = "advanced" /\ ~isCheckingAuth /\ isAuth

\* App is mounted; localStorage may hold a key of an earlier visit.
AppInit ==
    /\ palettes = loadedPalettes
    /\ call = [op |-> "none"]
    /\ result = Pending
    /\ procData = << >>
    /\ isBackgroundMask = << >>
    /\ grid = NoGrid
    /\ licenses = seedLicenses
    /\ login_logs = << >>
    /\ reply = [op |-> "none"]
    /\ fillAtRest
    /\ activeTab = "base"
    /\ isAuth = FALSE
    /\ isAdminFlag = FALSE
    /\ isCheckingAuth = TRUE
    /\ isActivating = FALSE
    /\ perler_license \in {"none", "saved"}
    /\ verifying = "none"
    /\ image = "none"
    /\ isGenerating = FALSE
    /\ generation = [at |-> "idle", src |-> "none"]
    /\ selectedColorCodes = << >>
    /\ isLocked = FALSE

\* checkAuth, called by the effect of the mount: with a saved key the
\* request is sent, without one the check is over at once.
CheckAuth ==
    /\ isCheckingAuth
    /\ verifying = "none"
    /\ IF perler_license # "none"
       THEN verifying' = "checkAuth" /\ UNCHANGED isCheckingAuth
       ELSE isCheckingAuth' = FALSE /\ UNCHANGED verifying
    /\ UNCHANGED <<activeTab, isAuth, isAdminFlag, isActivating,
                   perler_license, image, isGenerating, generation,
                   selectedColorCodes, isLocked>>
    /\ UNCHANGED <<coreVars, serverVars, fillVars>>

\* checkAuth goes on after its awaits.
CheckAuthAnswered ==
    /\ verifying = "checkAuth"
    /\ \E data \in VerifyAnswers :
          /\ reply' = data
          /\ isAuth' = IF data.success THEN TRUE ELSE isAuth
          /\ isAdminFlag' = IF data.success /\ data.isAdmin THEN TRUE
                            ELSE isAdminFlag
          /\ perler_license' = IF data.status = "answered" /\ ~data.success
                               THEN "none" ELSE perler_license
    /\ isCheckingAuth' = FALSE
    /\ verifying' = "none"
    /\ UNCHANGED <<activeTab, isActivating, image, isGenerating, generation,
                   selectedColorCodes, isLocked>>
    /\ UNCHANGED <<coreVars, licenses, login_logs, fillVars>>

\* handleActivate up to its first await; the form is shown on the advanced
\* tab while the device is not activated, and its button is disabled while
\* isActivating or without a key.  A key of blanks returns at once.
HandleActivate ==
    /\ activeTab = "advanced"
    /\ ~isCheckingAuth
    /\ ~isAuth
    /\ ~isActivating
    /\ isActivating' = TRUE
    /\ verifying' = "handleActivate"
    /\ UNCHANGED <<activeTab, isAuth, isAdminFlag, isCheckingAuth,
                   perler_license, image, isGenerating, generation,
                   selectedColorCodes, isLocked>>
    /\ UNCHANGED <<coreVars, serverVars, fillVars>>

\* handleActivate goes on after its awaits.
ActivateAnswered ==
    /\ verifying = "handleActivate"
    /\ \E data \in VerifyAnswers :
          /\ reply' = data
          /\ isAuth' = IF data.success THEN TRUE ELSE isAuth
          /\ isAdminFlag' = IF data.success /\ data.isAdmin THEN TRUE
                            ELSE isAdminFlag
          /\ perler_license' = IF data.success THEN "saved"
                               ELSE perler_license
    /\ isActivating' = FALSE
    /\ verifying' = "none"
    /\ UNCHANGED <<activeTab, isCheckingAuth, image, isGenerating,
                   generation, selectedColorCodes, isLocked>>
    /\ UNCHANGED <<coreVars, licenses, login_logs, fillVars>>

\* A logout that leaves isAdmin as it is.
loggedOutStillAdmin(flags) ==
    [flags EXCEPT !.isAuth = FALSE, !.activeTab = "base"]

\* setIsAuth(false); setIsAdmin(false); setActiveTab('base')
loggedOut(flags) ==
    [flags EXCEPT !.isAuth = FALSE, !.isAdmin = FALSE, !.activeTab = "base"]

\* handleLogout; its button is at the foot of the advanced tab.
HandleLogout ==
    /\ AdvancedOpen
    /\ perler_license' = "none"
    /\ \E after \in { loggedOut([isAuth |-> isAuth, isAdmin |-> isAdminFlag,
                                  activeTab |-> activeTab]) } :
          /\ isAuth' = after.isAuth
          /\ isAdminFlag' = after.isAdmin
          /\ activeTab' = after.activeTab
    /\ UNCHANGED <<isCheckingAuth, isActivating, verifying, image,
                   isGenerating, generation, selectedColorCodes, isLocked>>
    /\ UNCHANGED <<coreVars, serverVars, fillVars>>

\* A button of the bottom navigation is clicked; the button of the admin
\* tab is rendered only while isAdmin.
SetActiveTab ==
    /\ \E tab \in {"base", "advanced", "admin"} :
          /\ tab = "admin" => isAdminFlag
          /\ tab # activeTab
          /\ activeTab' = tab
    /\ UNCHANGED <<isAuth, isAdminFlag, isCheckingAuth, isActivating,
                   perler_license, verifying, image, isGenerating,
                   generation, selectedColorCodes, isLocked>>
    /\ UNCHANGED <<coreVars, serverVars, fillVars>>

\* handleImageUpload and the onload of its FileReader: image becomes the
\* data URL of the file, which the browser can decode ("picture") or not
\* ("broken": a damaged file, or a file that is no image).
HandleImageUpload ==
    /\ activeTab = "base"
    /\ \E file \in {"picture", "broken"} :
          /\ file # image
          /\ image' = file
    /\ UNCHANGED <<activeTab, isAuth, isAdminFlag, isCheckingAuth,
                   isActivating, perler_license, verifying, isGenerating,
                   generation, selectedColorCodes, isLocked>>
    /\ UNCHANGED <<coreVars, serverVars, fillVars>>

\* handleGenerate up to its await: the buttons are disabled without an
\* image and while isGenerating; imgElement.src = image starts the load.
HandleGenerate ==
    /\ activeTab = "base" \/ AdvancedOpen
    /\ image # "none"
    /\ ~isGenerating
    /\ isGenerating' = TRUE
    /\ generation' = [at |-> "loading", src |-> image]
    /\ UNCHANGED <<activeTab, isAuth, isAdminFlag, isCheckingAuth,
                   isActivating, perler_license, verifying, image,
                   selectedColorCodes, isLocked>>
    /\ UNCHANGED <<coreVars, serverVars, fillVars>>

\* imgElement.onload fires: the promise resolves and setTimeout(..., 50)
\* is called.
ImageLoads ==
    /\ generation.at = "loading"
    /\ generation.src = "picture"
    /\ generation' = [generation EXCEPT !.at = "timer"]
    /\ UNCHANGED <<activeTab, isAuth, isAdminFlag, isCheckingAuth,
                   isActivating, perler_license, verifying, image,
                   isGenerating, selectedColorCodes, isLocked>>
    /\ UNCHANGED <<coreVars, serverVars, fillVars>>

\* The image cannot be decoded: its error event fires.  imgElement has no
\* onerror and the promise has no reject, so the promise stays pending and
\* nothing of handleGenerate runs any more, its catch included.
ImageFails ==
    /\ generation.at = "loading"
    /\ generation.src = "broken"
    /\ generation' = [generation EXCEPT !.at = "abandoned"]
    /\ UNCHANGED <<activeTab, isAuth, isAdminFlag, isCheckingAuth,
                   isActivating, perler_license, verifying, image,
                   isGenerating, selectedColorCodes, isLocked>>
    /\ UNCHANGED <<coreVars, serverVars, fillVars>>

\* The callback of setTimeout: generate is awaited; its result is kept and
\* the selection is reset, or the exception is caught; finally
\* setIsGenerating(false).
TimerFires ==
    /\ generation.at = "timer"
    /\ \E done \in generateOutcomes :
          /\ grid' = IF done.status = "returned" THEN done.grid ELSE grid
          /\ selectedColorCodes' = IF done.status = "returned" THEN << >>
                                   ELSE selectedColorCodes
          /\ isLocked' = IF done.status = "returned" THEN FALSE ELSE isLocked
    /\ isGenerating' = FALSE
    /\ generation' = [at |-> "idle", src |-> "none"]
    /\ UNCHANGED <<activeTab, isAuth, isAdminFlag, isCheckingAuth,
                   isActivating, perler_license, verifying, image>>
    /\ UNCHANGED <<palettes, call, result, procData, isBackgroundMask>>
    /\ UNCHANGED <<serverVars, fillVars>>

\* handleCanvasClick outside the merge mode, on a cell of the grid, and
\* the click on an entry of the colour list: toggleColorSelection(code).
ToggleColorSelection ==
    /\ AdvancedOpen
    /\ grid # NoGrid
    /\ \E code \in codesOf(grid) :
          selectedColorCodes' = toggled(selectedColorCodes, code, isLocked)
    /\ UNCHANGED <<activeTab, isAuth, isAdminFlag, isCheckingAuth,
                   isActivating, perler_license, verifying, image,
                   isGenerating, generation, isLocked>>
    /\ UNCHANGED <<coreVars, serverVars, fillVars>>

\* onClick={() => setIsLocked(!isLocked)}
ToggleLock ==
    /\ AdvancedOpen
    /\ isLocked' = ~isLocked
    /\ UNCHANGED <<activeTab, isAuth, isAdminFlag, isCheckingAuth,
                   isActivating, perler_license, verifying, image,
                   isGenerating, generation, selectedColorCodes>>
    /\ UNCHANGED <<coreVars, serverVars, fillVars>>

\* clearSelection
ClearSelection ==
    /\ AdvancedOpen
    /\ selectedColorCodes' = << >>
    /\ isLocked' = FALSE
    /\ UNCHANGED <<activeTab, isAuth, isAdminFlag, isCheckingAuth,
                   isActivating, perler_license, verifying, image,
                   isGenerating, generation>>
    /\ UNCHANGED <<coreVars, serverVars, fillVars>>

AppNext ==
    \/ CheckAuth \/ CheckAuthAnswered \/ HandleActivate \/ ActivateAnswered
    \/ HandleLogout \/ SetActiveTab \/ HandleImageUpload \/ HandleGenerate
    \/ ImageLoads \/ ImageFails \/ TimerFires \/ ToggleColorSelection
    \/ ToggleLock \/ ClearSelection

AppSpec == AppInit /\ [][AppNext]_vars

---------------------------------------------------------------------------
(* Properties: the nearest-colour matcher *)

Matched == call.op = "findClosestColor" /\ result # Pending
Generated == call.op = "generate" /\ result # Pending
Merged == call.op \in {"mergeRegion", "autoMerge"}

\* The squared distance of the call's colour to entry i of its palette.
DistanceTo(i) ==
    deltaESq(rgbToLab(call.r * ChanScale, call.g * ChanScale, call.b * ChanScale),
             palettes[call.paletteKey][i].lab)

\* C1: for a key of the palette store with a non-empty palette,
\* findClosestColor returns an entry of that palette to which no entry is
\* strictly closer, and of the entries at that smallest distance the one
\* that comes first in the palette.
C1_NearestFirstInPaletteOrder ==
    (/\ Matched
     /\ call.paletteKey \in DOMAIN palettes
     /\ palettes[call.paletteKey] # << >>)
    => /\ result.status = "returned"
       /\ \E i \in 1..Len(palettes[call.paletteKey]) :
             /\ result.color = palettes[call.paletteKey][i]
             /\ \A j \in 1..Len(palettes[call.paletteKey]) :
                   /\ DistanceTo(j) >= DistanceTo(i)
                   /\ j < i => DistanceTo(j) > DistanceTo(i)

\* A call that returned the first of two entries at the smallest distance.
C1_TieReturnsFirst ==
    /\ Matched
    /\ result.status = "returned"
    /\ \E i, j \in 1..Len(palettes[call.paletteKey]) :
          /\ i < j
          /\ result.color = palettes[call.paletteKey][i]
          /\ DistanceTo(i) = DistanceTo(j)
          /\ \A k \in 1..Len(palettes[call.paletteKey]) :
                DistanceTo(k) >= DistanceTo(i)

\* C7: findClosestColor called with a key that the palette store does not
\* hold throws and returns no colour, and generate called with such a key
\* throws as a whole and returns no grid.
C7_UnknownKeyThrows ==
    /\ (Matched /\ call.paletteKey \notin DOMAIN palettes)
          => result = [status |-> "threw"]
    /\ (Generated /\ call.paletteKey \notin DOMAIN palettes)
          => /\ result.status = "threw"
             /\ result.grid = NoGrid
             /\ grid = NoGrid

\* generate got its processing buffer and then threw for an unknown key.
C7_GenerateThrewOnUnknownKey ==
    /\ Generated
    /\ call.paletteKey \notin DOMAIN palettes
    /\ procData # << >>
    /\ result.status = "threw"

---------------------------------------------------------------------------
(* Properties: the background mask *)

\* The pixels (numbered from 1) of data that isBgColor accepts.
BgColoured(data, tol) == { k \in 1..Len(data) : isBgColor(data[k], tol) }

\* Pixel k lies on the border of the buffer.
OnBorder(k, procW, procH) ==
    \/ (k - 1) % procW = 0
    \/ (k - 1) % procW = procW - 1
    \/ (k - 1) \div procW = 0
    \/ (k - 1) \div procW = procH - 1

\* Pixel k has a 4-connected neighbour in the set S.
TouchesPixel(k, S, procW) ==
    \/ k - procW \in S
    \/ k + procW \in S
    \/ (k - 1) % procW # 0 /\ k - 1 \in S
    \/ (k - 1) % procW # procW - 1 /\ k + 1 \in S

\* The pixels of bg joined to S by a 4-connected path inside bg.
RECURSIVE GrowPixels(_, _, _)
GrowPixels(S, bg, procW) ==
    IF \E k \in bg \ S : TouchesPixel(k, S, procW)
    THEN GrowPixels(S \cup { k \in bg \ S : TouchesPixel(k, S, procW) }, bg, procW)
    ELSE S

\* The background-coloured pixels joined to the border of the buffer by a
\* 4-connected path of background-coloured pixels.
BorderConnected(data, procW, procH, tol) ==
    GrowPixels({ k \in BgColoured(data, tol) : OnBorder(k, procW, procH) },
               BgColoured(data, tol), procW)

\* C2: with removeBackground = true every pixel of the mask is
\* background-coloured and joined to the border of the buffer by a
\* 4-connected path of background-coloured pixels, so that a
\* background-coloured region which foreground cuts off from the border is
\* not masked.
C2_MaskReachesBorder ==
    (Generated /\ call.removeBackground /\ procData # << >>)
    => { k \in 1..Len(procData) : isBackgroundMask[k] = 1 }
         \subseteq BorderConnected(procData, call.targetW * Oversample,
                                   call.targetH * Oversample,
                                   call.backgroundTolerance)

\* A mask that holds pixels and leaves out a background-coloured pixel
\* which foreground cuts off from the border.
C2_EnclosedRegionKept ==
    /\ Generated
    /\ call.removeBackground
    /\ procData # << >>
    /\ \E k \in 1..Len(procData) : isBackgroundMask[k] = 1
    /\ \E k \in BgColoured(procData, call.backgroundTolerance)
                  \ BorderConnected(procData, call.targetW * Oversample,
                                    call.targetH * Oversample,
                                    call.backgroundTolerance) :
          isBackgroundMask[k] = 0

---------------------------------------------------------------------------
(* Properties: the grid that generate returns *)

Returned == Generated /\ result.status = "returned"

\* The places <<row, cell>> of the grid g, counted from 1.
Cells(g) == { <<r, c>> : r \in 1..Len(g), c \in 1..Len(g[1]) }

\* C3: a call of generate with removeBackground = false returns a grid
\* without any cell flagged isExternal, whatever the algorithm and the
\* buffer, near-white and transparent pixels included.
C3_NoExternalWithoutRemoval ==
    (Returned /\ ~call.removeBackground)
    => \A p \in Cells(result.grid) : ~result.grid[p[1]][p[2]].isExternal

\* dominant_pooling returned, without background removal, a grid of
\* several cells for a buffer of which more than half is transparent.
C3_TransparentBufferNoRemoval ==
    /\ Returned
    /\ ~call.removeBackground
    /\ call.algorithm = "dominant_pooling"
    /\ Len(result.grid) > 1
    /\ 2 * Cardinality({ k \in 1..Len(procData) : Alpha(procData[k]) < 10 })
         > Len(procData)

\* Every pixel of data is opaque and has the colour of the first one.
Uniform(data) ==
    /\ data # << >>
    /\ Alpha(data[1]) = 255
    /\ \A k \in 1..Len(data) : data[k] = data[1]

\* The channel v after the brightness offset and the clamp to 0..255.
Brightened(v, brightness) ==
    IF v + brightness * 15 > 255 THEN 255
    ELSE IF v + brightness * 15 < 0 THEN 0 ELSE v + brightness * 15

\* C4: for a buffer whose pixels are all opaque and of one colour, every
\* cell of the grid that generate returns has the code of the palette
\* entry nearest to that colour after the brightness offset and the clamp,
\* under each of the four algorithms.
C4_UniformBufferOneCode ==
    (Returned /\ Uniform(procData))
    => \A p \in Cells(result.grid) :
          result.grid[p[1]][p[2]].code
            = findClosestColor(
                Brightened(Red(procData[1]), call.brightness) * ChanScale,
                Brightened(Green(procData[1]), call.brightness) * ChanScale,
                Brightened(Blue(procData[1]), call.brightness) * ChanScale,
                call.paletteKey).code

\* gradient_enhanced returned a grid of several cells for a uniform buffer
\* whose colour the brightness offset moves to another palette entry.
C4_UniformBrightenedGradient ==
    /\ Returned
    /\ Uniform(procData)
    /\ call.algorithm = "gradient_enhanced"
    /\ call.brightness # 0
    /\ Len(result.grid) > 1
    /\ findClosestColor(Red(procData[1]) * ChanScale,
                        Green(procData[1]) * ChanScale,
                        Blue(procData[1]) * ChanScale, call.paletteKey).code
         # result.grid[1][1].code

\* C5: for a target width and height in 1..120 the grid that generate
\* returns has targetH rows of targetW cells each, under each algorithm.
C5_GridHasTargetSize ==
    (/\ Returned
     /\ call.targetW \in 1..MaxGridDim
     /\ call.targetH \in 1..MaxGridDim)
    => /\ Len(result.grid) = call.targetH
       /\ \A r \in 1..Len(result.grid) : Len(result.grid[r]) = call.targetW

\* generate returned a grid that is wider than high.
C5_WideGridReturned ==
    /\ Returned
    /\ call.algorithm = "average"
    /\ call.targetW > call.targetH
    /\ Len(result.grid) = call.targetH
    /\ Len(result.grid[1]) = call.targetW

\* Math.min(Math.max(1, v), 120)
ClampedDim(v) == Min(Max(1, v), MaxGridDim)

\* C6: called with a target width or height outside 1..120, generate
\* clamps it into 1..120: the call is not rejected and the grid it returns
\* has the clamped size.
C6_CoreClampsTargetSize ==
    (/\ Generated
     /\ call.paletteKey \in DOMAIN palettes
     /\ (call.targetW \notin 1..MaxGridDim \/ call.targetH \notin 1..MaxGridDim))
    => /\ result.status = "returned"
       /\ Len(result.grid) = ClampedDim(call.targetH)
       /\ \A r \in 1..Len(result.grid) :
             Len(result.grid[r]) = ClampedDim(call.targetW)

---------------------------------------------------------------------------
(* Properties: the statistics *)

\* The number of cells of g with the code that are no background.
BeadCount(g, code) ==
    Cardinality({ p \in Cells(g) :
                    g[p[1]][p[2]].code = code /\ ~g[p[1]][p[2]].isExternal })

\* The list of [code, count] lists each code that a cell outside the
\* background has, once and with the number of those cells, and no other.
CountsBeads(list, g) ==
    /\ \A i \in 1..Len(list) : list[i].count = BeadCount(g, list[i].code)
    /\ \A i \in 1..Len(list) : list[i].count > 0
    /\ \A i, j \in 1..Len(list) : list[i].code = list[j].code => i = j
    /\ \A p \in Cells(g) :
          ~g[p[1]][p[2]].isExternal
            => \E i \in 1..Len(list) : list[i].code = g[p[1]][p[2]].code

\* C8: the statistics of the renderer and the colour list of the
\* application both leave out the cells flagged isExternal: the count of a
\* code is the number of its cells outside the background, and a code that
\* only background cells have is not listed.
C8_StatisticsSkipBackground ==
    grid # NoGrid
    => /\ CountsBeads(drawPatternStats(grid), grid)
       /\ CountsBeads(colorList(grid), grid)

\* The renderer's half of C8, which drawPattern meets.
C8_RendererSkipsBackground ==
    grid # NoGrid => CountsBeads(drawPatternStats(grid), grid)

---------------------------------------------------------------------------
(* Properties: the merges *)

\* The code, rgb and lab of a cell.
ColourOf(cell) == <<cell.code, cell.rgb, cell.lab>>

\* The cell p has a 4-connected neighbour in the set S.
TouchesCell(p, S) ==
    \E q \in S : Abs(p[1] - q[1]) + Abs(p[2] - q[2]) = 1

\* The cells of allowed joined to S by a 4-connected chain inside allowed.
RECURSIVE GrowCells(_, _)
GrowCells(S, allowed) ==
    IF \E p \in allowed \ S : TouchesCell(p, S)
    THEN GrowCells(S \cup { p \in allowed \ S : TouchesCell(p, S) }, allowed)
    ELSE S

\* The cells whose colour is nearer than the threshold to the colour of
\* the cell seed (Lab in tenths, both sides squared).
WithinThreshold(g, seed, threshold) ==
    { p \in Cells(g) :
        /\ threshold > 0
        /\ deltaESq(g[p[1]][p[2]].lab, g[seed[1]][seed[2]].lab)
             < 100 * threshold * threshold }

\* The seed and the cells joined to it by a 4-connected chain of cells
\* that are each within the threshold.
SimilarChain(g, seed, threshold) ==
    GrowCells({seed}, WithinThreshold(g, seed, threshold))

\* The cells joined to the cell s by a 4-connected chain of cells that are
\* no background.
ForegroundChain(g, s) ==
    GrowCells({s}, { p \in Cells(g) : ~g[p[1]][p[2]].isExternal })

\* C9: mergeRegion changes no cell outside the cells joined to the seed by
\* a 4-connected chain of cells within the threshold: such a cell has the
\* code, rgb, lab and isExternal after the call that it had before.
C9_MergeRegionStaysInRegion ==
    call.op = "mergeRegion"
    => \A p \in Cells(call.grid)
                  \ SimilarChain(call.grid, <<call.seedRow + 1, call.seedCol + 1>>,
                                 call.threshold) :
          result.grid[p[1]][p[2]] = call.grid[p[1]][p[2]]

\* A mergeRegion that rewrote a cell of a grid in which a cell next to the
\* rewritten region lies outside the chain of similar cells.
C9_MergedBesideOtherColour ==
    /\ call.op = "mergeRegion"
    /\ result.grid # call.grid
    /\ \E p \in Cells(call.grid)
                  \ SimilarChain(call.grid, <<call.seedRow + 1, call.seedCol + 1>>,
                                 call.threshold) :
          TouchesCell(p, { q \in Cells(call.grid) :
                             result.grid[q[1]][q[2]] # call.grid[q[1]][q[2]] })

\* C10: mergeRegion and autoMerge rewrite no cell flagged isExternal,
\* spread through no such cell and start from no such cell: a rewritten
\* cell has the colour of a foreground cell to which a chain of foreground
\* cells joins it; the flags and the size of the grid stay as they are.
C10_MergesLeaveBackground ==
    Merged
    => /\ Len(result.grid) = Len(call.grid)
       /\ \A r \in 1..Len(call.grid) : Len(result.grid[r]) = Len(call.grid[r])
       /\ \A p \in Cells(call.grid) :
             /\ result.grid[p[1]][p[2]].isExternal = call.grid[p[1]][p[2]].isExternal
             /\ call.grid[p[1]][p[2]].isExternal
                  => result.grid[p[1]][p[2]] = call.grid[p[1]][p[2]]
             /\ result.grid[p[1]][p[2]] # call.grid[p[1]][p[2]]
                  => \E s \in ForegroundChain(call.grid, p) :
                        ColourOf(call.grid[s[1]][s[2]])
                          = ColourOf(result.grid[p[1]][p[2]])
       /\ (/\ call.op = "mergeRegion"
           /\ call.grid[call.seedRow + 1][call.seedCol + 1].isExternal)
             => result.grid = call.grid

\* A merge that rewrote a cell of a grid in which a background cell lies
\* next to a foreground cell of another code within the threshold.
C10_MergedBesideBackground ==
    /\ Merged
    /\ result.grid # call.grid
    /\ \E p, q \in Cells(call.grid) :
          /\ call.grid[p[1]][p[2]].isExternal
          /\ ~call.grid[q[1]][q[2]].isExternal
          /\ TouchesCell(p, {q})
          /\ call.grid[p[1]][p[2]].code # call.grid[q[1]][q[2]].code
          /\ p \in WithinThreshold(call.grid, q, call.threshold)

\* C11: a degenerate merge request returns the grid unchanged: mergeRegion
\* seeded on a background cell, and mergeRegion or autoMerge with a
\* threshold <= 0, leave every cell as it was.
C11_DegenerateMergeKeepsGrid ==
    (/\ Merged
     /\ \/ call.threshold <= 0
        \/ /\ call.op = "mergeRegion"
           /\ call.grid[call.seedRow + 1][call.seedCol + 1].isExternal)
      => /\ Cells(result.grid) = Cells(call.grid)
         /\ \A p \in Cells(call.grid) :
               result.grid[p[1]][p[2]] = call.grid[p[1]][p[2]]

\* A mergeRegion with a positive threshold seeded on a background cell
\* that has a foreground neighbour of another code within the threshold.
C11_SeedOnBackgroundBesideSimilar ==
    /\ call.op = "mergeRegion"
    /\ call.threshold > 0
    /\ call.grid[call.seedRow + 1][call.seedCol + 1].isExternal
    /\ \E q \in Cells(call.grid) :
          /\ ~call.grid[q[1]][q[2]].isExternal
          /\ TouchesCell(q, {<<call.seedRow + 1, call.seedCol + 1>>})
          /\ call.grid[q[1]][q[2]].code
               # call.grid[call.seedRow + 1][call.seedCol + 1].code
          /\ q \in WithinThreshold(call.grid,
                                   <<call.seedRow + 1, call.seedCol + 1>>,
                                   call.threshold)

\* C12: autoMerge is idempotent: autoMerge of the grid that autoMerge
\* returned, with the same threshold, returns that grid cell for cell.
C12_AutoMergeIdempotent ==
    call.op = "autoMerge"
      => autoMerge(result.grid, call.threshold) = result.grid

\* An autoMerge that gave one code to two foreground cells whose colours
\* are not within the threshold of each other.
C12_MergedThroughThirdColour ==
    /\ call.op = "autoMerge"
    /\ call.threshold > 0
    /\ \E p, q \in Cells(call.grid) :
          /\ ~call.grid[p[1]][p[2]].isExternal
          /\ ~call.grid[q[1]][q[2]].isExternal
          /\ p \notin WithinThreshold(call.grid, q, call.threshold)
          /\ result.grid[p[1]][p[2]].code = result.grid[q[1]][q[2]].code
          /\ result.grid[p[1]][p[2]].code
               \notin {call.grid[p[1]][p[2]].code, call.grid[q[1]][q[2]].code}

\* The threshold is larger than the deltaE between any two palette colours.
BeyondPalette(threshold) ==
    /\ threshold > 0
    /\ \A k \in DOMAIN palettes :
          \A i, j \in 1..Len(palettes[k]) :
             deltaESq(palettes[k][i].lab, palettes[k][j].lab)
               < 100 * threshold * threshold

\* The foreground cells of the grid g.
Foreground(g) == { p \in Cells(g) : ~g[p[1]][p[2]].isExternal }

\* The first cell of a set of cells in row-major order.
FirstCell(S) ==
    CHOOSE p \in S : \A q \in S : p[1] < q[1] \/ (p[1] = q[1] /\ p[2] <= q[2])

---------------------------------------------------------------------------
(* Properties: the palette store and the cells of a grid *)

\* The pixels of the buffer that decide the cell p of the call's grid: the
\* centre of the block for 'nearest', the block for the other algorithms.
PixelsOf(p) ==
    IF call.algorithm = "nearest"
    THEN { (4 * (p[1] - 1) + 2) * (4 * call.targetW) + 4 * (p[2] - 1) + 2 + 1 }
    ELSE { y * (4 * call.targetW) + x + 1 :
             x \in (4 * (p[2] - 1))..(4 * p[2] - 1),
             y \in (4 * (p[1] - 1))..(4 * p[1] - 1) }

\* C14: generation never modifies the palette store: after any sequence of
\* generate calls every palette entry has the code, rgb and lab it was
\* parsed with and none has isExternal set; and a cell is marked isExternal
\* only on account of its own pixels (one of them is in the mask or is
\* transparent), never because another cell of the same palette entry was
\* marked.
C14_PaletteStoreUntouched ==
    /\ palettes = loadedPalettes
    /\ \A k \in DOMAIN palettes :
          \A i \in 1..Len(palettes[k]) : ~palettes[k][i].isExternal
    /\ Returned
         => \A p \in Cells(result.grid) :
               result.grid[p[1]][p[2]].isExternal
                 => \E k \in PixelsOf(p) :
                       isBackgroundMask[k] = 1 \/ procData[k][4] < 10

\* A grid that generate returned in which two cells hold the same palette
\* entry, one of them marked isExternal and the other not.
C14_SameEntryMarkedAndUnmarked ==
    /\ Returned
    /\ \E p, q \in Cells(result.grid) :
          /\ result.grid[p[1]][p[2]].code = result.grid[q[1]][q[2]].code
          /\ result.grid[p[1]][p[2]].isExternal
          /\ ~result.grid[q[1]][q[2]].isExternal

---------------------------------------------------------------------------
(* Properties: the license server *)

\* C15: one key, one device: once a key is bound to a fingerprint then, as
\* long as the key is not deleted, a request that is handled leaves the
\* stored fingerprint as it is, POST /api/verify for the key with another
\* fingerprint is answered 403, and it succeeds only with the bound
\* fingerprint; in any order of the requests.
C15_OneKeyOneDevice ==
    [][\A k \in DOMAIN licenses :
          (licenses[k] # Null /\ k \in DOMAIN licenses')
            => /\ licenses'[k] = licenses[k]
               /\ (reply'.op = "verify" /\ reply'.key = k)
                    => /\ reply'.fingerprint \notin {Missing, licenses[k]}
                            => reply'.status = 403 /\ ~reply'.success
                       /\ reply'.success => reply'.fingerprint = licenses[k]]_vars

\* A request for a key with a fingerprint other than the one that an
\* earlier request bound it to has been answered 403.
C15_SecondDeviceRefused ==
    /\ reply.op = "verify"
    /\ reply.status = 403
    /\ reply.key \in DOMAIN licenses
    /\ licenses[reply.key] \notin {Null, reply.fingerprint}
    /\ \E i \in 1..Len(login_logs) :
          /\ login_logs[i].status = "bound_success"
          /\ login_logs[i].key = reply.key
          /\ login_logs[i].fingerprint = licenses[reply.key]

---------------------------------------------------------------------------
(* Properties: the parsing of the palette source table *)

Loaded == call.op = "parsePalettes" /\ result.status = "returned"

\* The k-th smallest member of a set of row numbers.
nthOf(S, k) == CHOOSE i \in S : Cardinality({ j \in S : j < i }) = k - 1

\* The entries of a palette are those of the data rows of K, in the order
\* of the rows, each with the code and the RGB value given for its row.
EntriesOfRows(entries, K, codeOf(_), rgbOf(_)) ==
    /\ Len(entries) = Cardinality(K)
    /\ \A k \in 1..Len(entries) :
          /\ entries[k].code = codeOf(nthOf(K, k))
          /\ entries[k].rgb = rgbOf(nthOf(K, k))

\* A field of '#' and six hex digits, and the RGB value it encodes.
encodesRgb(hex) ==
    /\ Len(hex) = 7
    /\ hex[1] = "#"
    /\ \A i \in 2..7 : hex[i] \in DOMAIN HexDigits

encodedRgb(hex) ==
    << 16 * HexDigits[hex[2]] + HexDigits[hex[3]],
       16 * HexDigits[hex[4]] + HexDigits[hex[5]],
       16 * HexDigits[hex[6]] + HexDigits[hex[7]] >>

\* The field of a data row in the column of a brand, as written.
rawCode(lines, i, brand) == elementAt(lines[i], indexOf(lines[1], brand))

---------------------------------------------------------------------------
(* Properties: the centre crop *)

Cropped == call.op = "crop" /\ result.status = "cropped"

\* C17: for sizes >= 1 the crop rectangle lies inside the source image, has
\* the aspect ratio of the target, and crops only the width, centred, when
\* the ratio of the source exceeds that of the target, and only the height,
\* centred, otherwise.
C17_CropInsideWithTargetRatio ==
    Cropped =>
      LET r == result.crop
          imgW == fracOf(call.imgW)
          imgH == fracOf(call.imgH)
          right == fracAdd(r.cropX, r.cropW)
          bottom == fracAdd(r.cropY, r.cropH)
      IN  /\ ~fracLess(r.cropX, fracOf(0))
          /\ ~fracLess(r.cropY, fracOf(0))
          /\ ~fracLess(imgW, right)
          /\ ~fracLess(imgH, bottom)
          /\ fracLess(fracOf(0), r.cropW)
          /\ fracLess(fracOf(0), r.cropH)
          /\ r.cropW[1] * r.cropH[2] * call.targetH
                = r.cropH[1] * r.cropW[2] * call.targetW
          /\ IF call.imgW * call.targetH > call.targetW * call.imgH
             THEN /\ fracEq(r.cropH, imgH)
                  /\ fracEq(r.cropY, fracOf(0))
                  /\ fracLess(r.cropW, imgW)
                  /\ fracEq(r.cropX, fracSub(imgW, right))
             ELSE /\ fracEq(r.cropW, imgW)
                  /\ fracEq(r.cropX, fracOf(0))
                  /\ fracEq(r.cropY, fracSub(imgH, bottom))

\* A crop of the width that starts between two pixel columns: the source
\* is wider than the target, cropX is positive and no whole number.
C17_WidthCroppedAtAFraction ==
    /\ Cropped
    /\ call.imgW * call.targetH > call.targetW * call.imgH
    /\ fracLess(fracOf(0), result.crop.cropX)
    /\ result.crop.cropX[1] % result.crop.cropX[2] # 0

\* A crop of the height: the source is taller than the target.
C17_HeightCropped ==
    /\ Cropped
    /\ call.imgW * call.targetH < call.targetW * call.imgH
    /\ fracLess(result.crop.cropH, fracOf(call.imgH))
    /\ fracLess(fracOf(0), result.crop.cropY)

---------------------------------------------------------------------------
(* Properties: the background flag of a cell *)

\* The pixels of the block of the cell p that are in the mask, and those
\* that are transparent.
MaskedOf(p) == { k \in PixelsOf(p) : isBackgroundMask[k] = 1 }
TransparentOf(p) == { k \in PixelsOf(p) : procData[k][4] < 10 }

AveragedClean ==
    Returned /\ call.algorithm = "average" /\ call.removeBackground

PooledClean ==
    Returned /\ call.algorithm = "dominant_pooling" /\ call.removeBackground

\* C18: with 'average' and removeBackground a cell is isExternal exactly
\* when strictly more than half of the pixels of its block are in the
\* mask; a block with exactly half of its pixels in the mask gives a cell
\* that is not background.
C18_AverageMajorityMasked ==
    AveragedClean =>
      \A p \in Cells(result.grid) :
        result.grid[p[1]][p[2]].isExternal
          <=> 2 * Cardinality(MaskedOf(p)) > Cardinality(PixelsOf(p))

\* An averaged cell with exactly half of the pixels of its block in the
\* mask, which is not isExternal.
C18_ExactlyHalfMaskedKept ==
    /\ AveragedClean
    /\ \E p \in Cells(result.grid) :
          /\ 2 * Cardinality(MaskedOf(p)) = Cardinality(PixelsOf(p))
          /\ ~result.grid[p[1]][p[2]].isExternal

\* An averaged cell with more than half, and not all, of the pixels of its
\* block in the mask, which is isExternal.
C18_MajorityMaskedFlagged ==
    /\ AveragedClean
    /\ \E p \in Cells(result.grid) :
          /\ 2 * Cardinality(MaskedOf(p)) > Cardinality(PixelsOf(p))
          /\ MaskedOf(p) # PixelsOf(p)
          /\ result.grid[p[1]][p[2]].isExternal

\* C19: with 'dominant_pooling' and removeBackground a cell is isExternal
\* exactly when the pixels of its block that are transparent (alpha < 10)
\* or in the mask, a pixel that is both counted once, are strictly more
\* than half of the pixels of the block.
C19_PooledMajorityBackground ==
    PooledClean =>
      \A p \in Cells(result.grid) :
        result.grid[p[1]][p[2]].isExternal
          <=> 2 * Cardinality(MaskedOf(p) \cup TransparentOf(p))
                > Cardinality(PixelsOf(p))

\* A pooled cell with pixels that are both transparent and in the mask,
\* whose transparent or masked pixels are exactly half of the block: it is
\* not isExternal, as it would be were those pixels counted twice.
C19_TransparentAndMaskedOnce ==
    /\ PooledClean
    /\ \E p \in Cells(result.grid) :
          /\ MaskedOf(p) \cap TransparentOf(p) # {}
          /\ 2 * Cardinality(MaskedOf(p) \cup TransparentOf(p))
                = Cardinality(PixelsOf(p))
          /\ ~result.grid[p[1]][p[2]].isExternal

---------------------------------------------------------------------------
(* Properties: the colour of a pooled cell *)

Pooled == Returned /\ call.algorithm = "dominant_pooling"

\* The pixels of the block of the cell p that are not transparent, the
\* brightness-adjusted colour of a pixel and the bucket it is counted in.
OpaqueOf(p) == PixelsOf(p) \ TransparentOf(p)
AdjustedAt(k) == << adjust(procData[k][1], call.brightness), adjust(procData[k][2], call.brightness), adjust(procData[k][3], call.brightness) >>
BucketAt(k) == << roundToTen(AdjustedAt(k)[1]), roundToTen(AdjustedAt(k)[2]), roundToTen(AdjustedAt(k)[3]) >>

\* The pixels of the largest buckets of the block of p.
LargestOf(p) ==
    LET inBucket == { <<k, BucketAt(k)>> : k \in OpaqueOf(p) }
        sizes == { <<key, Cardinality({ kb \in inBucket : kb[2] = key })>> :
                     key \in { kb[2] : kb \in inBucket } }
        largest == { s[1] : s \in { s \in sizes :
                                      \A o \in sizes : o[2] <= s[2] } }
    IN  { kb[1] : kb \in { kb \in inBucket : kb[2] \in largest } }

\* The cell p holds the palette entry matched for the colour rgb.
MatchedFrom(p, rgb) ==
    LET color == findClosestColor(rgb[1] * ChanScale, rgb[2] * ChanScale, rgb[3] * ChanScale, call.paletteKey)
        cell == result.grid[p[1]][p[2]]
    IN  /\ cell.code = color.code
        /\ cell.rgb = color.rgb
        /\ cell.lab = color.lab

\* A rounded colour with a channel above 255 (250 to 255 round to 260).
Overbright(rgb) == \E i \in 1..3 : rgb[i] > 255

\* The statement of C20 with the rounded colour as the colour of a
\* bucket: a pooled cell is matched for the rounded colour of a bucket
\* that holds the most non-transparent pixels of its block, and for white
\* when the block has no such pixel.  Blocks with a largest bucket whose
\* rounded colour is no RGB value are left out of the statement.
C20_PooledFromRoundedColour ==
    Pooled =>
      \A p \in Cells(result.grid) :
        IF OpaqueOf(p) = {} THEN MatchedFrom(p, <<255, 255, 255>>)
        ELSE LET largest == LargestOf(p)
             IN  \E k \in largest :
                    Overbright(BucketAt(k)) \/ MatchedFrom(p, BucketAt(k))

\* C20 (amended): with 'dominant_pooling' the pixels of a block that are
\* not transparent (alpha >= 10) are counted in buckets by their
\* brightness-adjusted RGB rounded to the nearest 10 per channel; the cell
\* is matched for the brightness-adjusted colour, not rounded, of the first
\* pixel in row-major order of the bucket with the most pixels, of several
\* such buckets the one whose first pixel comes first; a block without a
\* non-transparent pixel is matched for white (255, 255, 255).
C20_PooledFromFirstOfLargest ==
    Pooled =>
      \A p \in Cells(result.grid) :
        IF OpaqueOf(p) = {} THEN MatchedFrom(p, <<255, 255, 255>>)
        ELSE LET largest == LargestOf(p)
             IN  MatchedFrom(p, AdjustedAt(nthOf(largest, 1)))

\* A pooled cell over a block whose largest buckets are three of equal
\* size, matched for the colour of the first pixel of the first of them,
\* for which the matcher gives another entry than for its rounded colour;
\* and a cell over a block of transparent pixels only.
C20_FirstPixelNotRounded ==
    /\ Pooled
    /\ \E p \in Cells(result.grid) :
          LET largest == LargestOf(p)
              first == nthOf(largest, 1)
          IN  /\ OpaqueOf(p) # {}
              /\ \E k \in largest : BucketAt(k) # BucketAt(first)
              /\ MatchedFrom(p, AdjustedAt(first))
              /\ ~Overbright(BucketAt(first))
              /\ ~MatchedFrom(p, BucketAt(first))

\* A pooled cell over a block of transparent pixels only, matched for white.
C20_EmptyBlockWhite ==
    /\ Pooled
    /\ \E p \in Cells(result.grid) :
          OpaqueOf(p) = {} /\ result.grid[p[1]][p[2]].code = "H1"

---------------------------------------------------------------------------
(* Properties: the enhancement pass of 'gradient_enhanced' *)

Enhanced == Returned /\ call.algorithm = "gradient_enhanced"

\* The locals rawGrid and enhancedGrid of the call, from the buffer and the
\* mask it left.
RawGrid ==
    rawGridOf(procData, isBackgroundMask, call.targetW, call.targetH,
              call.targetW * Oversample, call.targetH * Oversample,
              blockSize(call.targetW * Oversample, call.targetW),
              blockSize(call.targetH * Oversample, call.targetH),
              call.brightness, call.removeBackground)

EnhancedGrid == enhancedGridOf(RawGrid, call.targetW, call.targetH)

\* The cells of the grid beside the cell p.
BesideOf(p) ==
    { q \in Cells(result.grid) :
        \/ q[1] = p[1] /\ (q[2] = p[2] - 1 \/ q[2] = p[2] + 1)
        \/ q[2] = p[2] /\ (q[1] = p[1] - 1 \/ q[1] = p[1] + 1) }

\* The sum of f over a set of cells.
RECURSIVE SumOfValues(_, _)
SumOfValues(S, value) ==
    IF S = {} THEN 0
    ELSE LET q == CHOOSE q \in S : TRUE
         IN  value[q] + SumOfValues(S \ {q}, value)

SumOfCells(S, f(_)) == SumOfValues(S, [q \in S |-> f(q)])

\* The sum over the cells beside p of the absolute differences of the
\* three channels of the averaged colours, times ChanScale.
GapSum(raw, p) ==
    LET gap(q) == Abs(raw[p[1]][p[2]].r - raw[q[1]][q[2]].r)
                    + Abs(raw[p[1]][p[2]].g - raw[q[1]][q[2]].g)
                    + Abs(raw[p[1]][p[2]].b - raw[q[1]][q[2]].b)
    IN  SumOfCells(BesideOf(p), gap)

\* The cell p of the grid holds the palette entry matched for colour.
CellMatches(p, colour) ==
    LET color == findClosestColor(colour.r, colour.g, colour.b, call.paletteKey)
    IN  /\ result.grid[p[1]][p[2]].code = color.code
        /\ result.grid[p[1]][p[2]].rgb = color.rgb

\* The statement of C21 with the difference averaged over the three
\* channels as well as over the neighbours: a cell whose mean absolute
\* difference per channel is below 15 keeps the colour of 'average'.
C21_FlatPerChannelKept ==
    Enhanced =>
      LET raw == RawGrid
          enhanced == EnhancedGrid
      IN  \A p \in Cells(result.grid) :
            GapSum(raw, p) < 15 * ChanScale * 3 * Cardinality(BesideOf(p))
              => /\ enhanced[p[1]][p[2]] = raw[p[1]][p[2]]
                 /\ CellMatches(p, raw[p[1]][p[2]])

\* C21 (amended): in 'gradient_enhanced' a cell keeps exactly the colour of
\* 'average' when the absolute differences of its three channels against a
\* neighbour, added up over the channels and averaged over the existing
\* 4-connected neighbours, are below 15 (a cell without neighbours always
\* does); only cells at or above 15 are sharpened.
C21_FlatCellKept ==
    Enhanced =>
      LET raw == RawGrid
          enhanced == EnhancedGrid
      IN  \A p \in Cells(result.grid) :
            /\ (BesideOf(p) = {}
                  \/ GapSum(raw, p) < 15 * ChanScale * Cardinality(BesideOf(p)))
                 => /\ enhanced[p[1]][p[2]] = raw[p[1]][p[2]]
                    /\ CellMatches(p, raw[p[1]][p[2]])
            /\ CellMatches(p, enhanced[p[1]][p[2]])

\* An enhanced grid with a cell that differs from its neighbours, by less
\* than 15 on average, and keeps its averaged colour.
C21_NearlyFlatKept ==
    /\ Enhanced
    /\ \E p \in Cells(result.grid) :
          /\ GapSum(RawGrid, p) > 0
          /\ GapSum(RawGrid, p) < 15 * ChanScale * Cardinality(BesideOf(p))
          /\ EnhancedGrid[p[1]][p[2]] = RawGrid[p[1]][p[2]]

\* The sharpened value of a channel: ten times the value is
\* 20 * center - (sum of the neighbours) - missing * center, within
\* [0, 255].
SharpenedTo(value, center, besideSum, missing) ==
    LET tenfold == 20 * center - besideSum - missing * center
    IN  IF tenfold <= 0 THEN value = 0
        ELSE IF tenfold >= 10 * 255 * ChanScale THEN value = 255 * ChanScale
        ELSE 10 * value = tenfold

\* C22: each channel of a sharpened cell is 2 * center - 0.1 * (sum of the
\* existing 4-neighbours) - 0.1 * (number of missing neighbours) * center,
\* clamped to [0, 255], center and neighbours being those of the averaged
\* grid.
C22_SharpenedFromAverages ==
    Enhanced =>
      LET raw == RawGrid
          enhanced == EnhancedGrid
      IN  \A p \in Cells(result.grid) :
            (BesideOf(p) # {}
               /\ GapSum(raw, p) >= 15 * ChanScale * Cardinality(BesideOf(p)))
              => LET beside == BesideOf(p)
                     missing == 4 - Cardinality(beside)
                     red(q) == raw[q[1]][q[2]].r
                     green(q) == raw[q[1]][q[2]].g
                     blue(q) == raw[q[1]][q[2]].b
                 IN  /\ SharpenedTo(enhanced[p[1]][p[2]].r, red(p),
                                    SumOfCells(beside, red), missing)
                     /\ SharpenedTo(enhanced[p[1]][p[2]].g, green(p),
                                    SumOfCells(beside, green), missing)
                     /\ SharpenedTo(enhanced[p[1]][p[2]].b, blue(p),
                                    SumOfCells(beside, blue), missing)
                     /\ CellMatches(p, enhanced[p[1]][p[2]])

\* A sharpened cell at the border of the grid with a channel that is
\* neither clamped nor left as it was, beside a cell that is sharpened too.
C22_BorderCellSharpened ==
    /\ Enhanced
    /\ \E p \in Cells(result.grid) :
          LET e == EnhancedGrid[p[1]][p[2]]
          IN  /\ Cardinality(BesideOf(p)) \in 1..3
              /\ e.g # RawGrid[p[1]][p[2]].g
              /\ e.g > 0
              /\ e.g < 255 * ChanScale
              /\ \E q \in BesideOf(p) :
                    EnhancedGrid[q[1]][q[2]] # RawGrid[q[1]][q[2]]

\* C23: the cells that 'gradient_enhanced' flags isExternal are those that
\* 'average' flags on the same input: a cell is flagged exactly when the
\* averaged cell is, whether the enhancement pass keeps or sharpens it.
C23_EnhancementKeepsFlags ==
    Enhanced =>
      LET raw == RawGrid
      IN  \A p \in Cells(result.grid) :
            /\ result.grid[p[1]][p[2]].isExternal <=> raw[p[1]][p[2]].isBg
            /\ result.grid[p[1]][p[2]].isExternal
                 <=> (call.removeBackground
                        /\ 2 * Cardinality(MaskedOf(p)) > Cardinality(PixelsOf(p)))

\* An enhanced grid with a sharpened cell that is isExternal and a cell
\* that is not.
C23_SharpenedCellFlagged ==
    /\ Enhanced
    /\ \E p, q \in Cells(result.grid) :
          /\ EnhancedGrid[p[1]][p[2]] # RawGrid[p[1]][p[2]]
          /\ result.grid[p[1]][p[2]].isExternal
          /\ ~result.grid[q[1]][q[2]].isExternal

---------------------------------------------------------------------------
(* Properties: the blocks of the cells *)

LaidOut == call.op = "blocks" /\ result.status = "blocks"

\* The blocks of one axis are runs of 4 pixels, one after the other from
\* pixel 0 to the end of the buffer, and the sampled pixel is in its block.
AxisTiled(blocks, target, proc) ==
    /\ Len(blocks) = target
    /\ blocks[1].start = 0
    /\ blocks[target].end = proc
    /\ \A r \in 1..target :
          /\ blocks[r].end - blocks[r].start = 4
          /\ blocks[r].start >= 0
          /\ blocks[r].end <= proc
          /\ blocks[r].start <= blocks[r].centre
          /\ blocks[r].centre < blocks[r].end
          /\ r < target => blocks[r + 1].start = blocks[r].end

\* C24: for targetW and targetH in 1..120 the block of every cell is 4 x 4
\* pixels inside the buffer, the blocks cover every pixel of the buffer
\* exactly once, the pixel 'nearest' samples is in the block, and the
\* number of pixels a strategy divides by is never 0.
C24_BlocksTileBuffer ==
    LaidOut =>
      /\ AxisTiled(result.cols, call.targetW, result.procW)
      /\ AxisTiled(result.rows, call.targetH, result.procH)
      /\ \A c \in 1..call.targetW :
            \A r \in {1, call.targetH} :
              blockPixels(result.cols[c].start, result.cols[c].end,
                          result.rows[r].start, result.rows[r].end) = 16
      /\ \A x \in 0..(result.procW - 1) :
            Cardinality({ c \in 1..call.targetW :
                            result.cols[c].start <= x /\ x < result.cols[c].end }) = 1

\* The blocks of a grid of 120 x 1 cells are laid out: the last column
\* ends with the buffer, at pixel 480.
C24_WidestGridLaidOut ==
    /\ LaidOut
    /\ call.targetW = MaxGridDim
    /\ call.targetH = 1
    /\ result.cols[MaxGridDim].end = MaxGridDim * Oversample
    /\ result.cols[MaxGridDim].centre = MaxGridDim * Oversample - 2

---------------------------------------------------------------------------
(* Properties: the flood fill pass by pass *)

Filling == call.op = "floodFill" /\ result.status \in {"filling", "returned"}

FillEnded == call.op = "floodFill" /\ result.status = "returned"

\* The pixels (from 1) the mask holds.
MaskedNow == { k \in 1..Len(isBackgroundMask) : isBackgroundMask[k] = 1 }

\* The entries the queue holds for the pixel k, taken or not.
QueuedFor(k) ==
    { i \in 1..Len(fill.queue) :
        fill.queue[i][1] * call.procW + fill.queue[i][2] = k - 1 }

\* The neighbours a pixel pushes when it is masked.
PushedBy(k) ==
    Len(fillNeighbours((k - 1) \div call.procW, (k - 1) % call.procW,
                       call.procW, call.procH))

\* No pixel has been tested twice, only tested pixels are masked, and the
\* queue holds the four corners and the neighbours of every masked pixel
\* once.
TestedOnce ==
    Filling =>
      /\ \A k \in 1..Len(tested) : tested[k] <= 1
      /\ \A k \in MaskedNow : tested[k] = 1
      /\ Len(fill.queue) = 4 + SumOfValues(MaskedNow,
                                           [k \in MaskedNow |-> PushedBy(k)])

\* C25: the flood fill ends for every processing buffer, and however often
\* a pixel is put in the queue, at most one pass of the loop tests its
\* colour and pushes its neighbours.
C25_FillEndsTestingOnce == []TestedOnce /\ <>FillEnded

\* The fill has ended with a pixel that was put in the queue three times
\* or more and tested once.
C25_QueuedThriceTestedOnce ==
    /\ FillEnded
    /\ \E k \in 1..Len(tested) :
          /\ Cardinality(QueuedFor(k)) >= 3
          /\ tested[k] = 1

\* The corner pixels (from 1) of the buffer.
Corners(procW, procH) ==
    { 1, procW, (procH - 1) * procW + 1, procH * procW }

\* The background-coloured pixels joined to a corner of the buffer by a
\* 4-connected path of background-coloured pixels.
CornerConnected(data, procW, procH, tol) ==
    GrowPixels(BgColoured(data, tol) \cap Corners(procW, procH),
               BgColoured(data, tol), procW)

\* C26: when the flood fill has ended, the mask is exactly the set of
\* background-coloured pixels joined to a corner pixel by a 4-connected
\* path of background-coloured pixels; a background-coloured region on the
\* border that holds no corner is not masked, and the mask is empty when
\* no corner is background-coloured.
C26_MaskIsCornerConnected ==
    FillEnded =>
      /\ MaskedNow = CornerConnected(procData, call.procW, call.procH,
                                     call.backgroundTolerance)
      /\ (BgColoured(procData, call.backgroundTolerance)
             \cap Corners(call.procW, call.procH) = {}) => MaskedNow = {}

\* The fill has ended with pixels in the mask and with a
\* background-coloured pixel on the border that is not masked.
C26_BorderRegionNotMasked ==
    /\ FillEnded
    /\ MaskedNow # {}
    /\ \E k \in BgColoured(procData, call.backgroundTolerance) :
          /\ OnBorder(k, call.procW, call.procH)
          /\ k \notin MaskedNow

---------------------------------------------------------------------------
(* Properties: background removal with the tolerance 0 *)

ZeroTolerance ==
    /\ Generated
    /\ call.removeBackground
    /\ call.backgroundTolerance = 0
    /\ procData # << >>

\* C27: with backgroundTolerance = 0 no pixel passes isBgColor, pure white
\* included, so the mask is empty, and the grids of 'nearest', 'average'
\* and 'gradient_enhanced' have no cell flagged isExternal although
\* removeBackground is true.
C27_ZeroToleranceMasksNothing ==
    ZeroTolerance =>
      /\ BgColoured(procData, 0) = {}
      /\ \A k \in 1..Len(procData) : isBackgroundMask[k] = 0
      /\ (result.status = "returned" /\ call.algorithm # "dominant_pooling")
           => \A p \in Cells(result.grid) :
                 ~result.grid[p[1]][p[2]].isExternal

\* 'average' returned a grid with the tolerance 0 for a buffer whose corner
\* is pure white.
C27_WhiteCornerKept ==
    /\ ZeroTolerance
    /\ result.status = "returned"
    /\ call.algorithm = "average"
    /\ procData[1] = White

---------------------------------------------------------------------------
(* Properties: the application *)

\* Nothing of a request of handleGenerate is still to run: no load of an
\* image is awaited and no timer is set.
RequestAtRest == generation.at \notin {"loading", "timer"}

\* C28: every generation request ends with isGenerating false again,
\* whether generate returns, generate throws or the image fails to load:
\* once nothing of the request is still to run, isGenerating is false.
C28_EveryRequestEnds == RequestAtRest => ~isGenerating

\* The flags agree: the admin tab is shown only to an administrator, and
\* an administrator is activated.
FlagsAgree ==
    /\ activeTab = "admin" => isAdminFlag
    /\ isAdminFlag => isAuth

\* A request to /api/verify is answered with success in this step.
VerifiedNow ==
    /\ verifying # "none"
    /\ verifying' = "none"
    /\ reply'.status = "answered"
    /\ reply'.success

\* C29: in every reachable state the admin tab is the active tab only
\* while isAdmin is true and isAdmin is true only while isAuth is true;
\* isAuth and isAdmin become true only in a step in which /api/verify has
\* answered with success, isAdmin only when the answer says isAdmin.
C29_AdminOnlyWhileVerified ==
    /\ []FlagsAgree
    /\ [][/\ (isAuth' /\ ~isAuth) => VerifiedNow
          /\ (isAdminFlag' /\ ~isAdminFlag) => (VerifiedNow /\ reply'.isAdmin)]_vars

\* An administrator has logged out from a session in which the admin tab
\* was open before: no flag is left, the base tab is shown, and the last
\* answer of /api/verify said isAdmin.
C29_AdminLoggedOut ==
    /\ ~isAuth
    /\ ~isAdminFlag
    /\ activeTab = "base"
    /\ perler_license = "none"
    /\ reply.op = "verify" /\ reply.success /\ reply.isAdmin
    /\ ~isCheckingAuth

\* No code is held twice.
NoCodeTwice ==
    \A i, j \in 1..Len(selectedColorCodes) :
       selectedColorCodes[i] = selectedColorCodes[j] => i = j

\* C30 as written: selectedColorCodes holds at most 1 code while isLocked
\* is false and at most 3 codes while isLocked is true, without
\* duplicates.
C30_OneCodeUnlessLocked ==
    /\ Len(selectedColorCodes) <= (IF isLocked THEN 3 ELSE 1)
    /\ NoCodeTwice

\* C30: selectedColorCodes holds at most 3 codes, without duplicates, in
\* both modes; while isLocked is false it holds more than 1 code only as
\* a selection that was made in multi-select mode and has not been changed
\* since: every change of the selection that ends in single-select mode
\* leaves at most 1 code.
C30_ThreeCodesAtMost ==
    /\ [](Len(selectedColorCodes) <= 3 /\ NoCodeTwice)
    /\ [][(~isLocked' /\ Len(selectedColorCodes') > 1)
            => selectedColorCodes' = selectedColorCodes]_vars

\* Three codes are selected and the selection is in single-select mode.
C30_ThreeCodesUnlocked ==
    /\ ~isLocked
    /\ Len(selectedColorCodes) = 3
    /\ NoCodeTwice

=============================================================================
